---- MODULE Spec2Model ----
(***************************************************************************)
(* fphoto-renamer: the transactional apply / undo engine (apply.rs) and    *)
(* the planner's collision resolver (planner.rs), as a state machine over  *)
(* a small filesystem.                                                     *)
(*                                                                         *)
(* A path is a record [dir, name, n]: dir is the sequence of directory     *)
(* components, name the file stem and n a numeric suffix (0: none), so     *)
(* that `name_001` is [name |-> name, n |-> 1].  The filesystem `fs` maps   *)
(* the canonical path of every existing file to its content, `dirs` is the *)
(* set of existing canonical directories and `links` the symlinked         *)
(* directories with their targets.                                         *)
(***************************************************************************)
EXTENDS Integers, Sequences, FiniteSets, TLC

VARIABLES
    fs,        \* canonical path -> content, for every existing file
    dirs,      \* existing canonical directories
    links,     \* symlinked directory -> the directory it points to
    journal,   \* the undo journal file: <<>> (absent) or <<UndoLog>>
    pc,        \* position inside the running call ("idle" between calls)
    phase,     \* which calls were made so far in this behaviour
    plan,      \* the RenamePlan handed to apply
    opts,      \* ApplyOptions
    loc,       \* the running call's local variables
    result,    \* what the last finished call returned
    oplog,     \* filesystem mutations performed by the running/last call
    faults,    \* number of I/O failures injected so far
    pre,       \* files, directories and journal when the running/last call started
    aresult    \* what the call before the running/last one returned

vars ==
    <<fs, dirs, links, journal, pc, phase, plan, opts, loc, result, oplog, faults, pre,
      aresult>>

(***************************** bounds **************************************)
MaxCands == 2
MaxFaults == 2

(***************************** paths ***************************************)
JPG == <<"jpg">>
OUT == <<"out">>
LNK == <<"jpg", "lnk">>
TMP == ".fphoto_tmp_"

P(d, s) == [dir |-> d, name |-> s, n |-> 0]

IsPrefix(r, d) == Len(r) <= Len(d) /\ SubSeq(d, 1, Len(r)) = r

\* Path::starts_with on a file path: root is a component prefix of its parent
StartsWith(p, root) == IsPrefix(root, p.dir)

\* fs::canonicalize on a directory: symlinked prefixes are replaced by their target
RECURSIVE CanonDir(_)
CanonDir(d) ==
    LET hits == {l \in DOMAIN links : IsPrefix(l, d)}
    IN IF hits = {} THEN d
       ELSE LET l == CHOOSE x \in hits : \A y \in hits : Len(x) <= Len(y)
            IN CanonDir(links[l] \o SubSeq(d, Len(l) + 1, Len(d)))

DirExists(d) == CanonDir(d) \in dirs

\* the file a path names once the symlinks of its parent are followed
Resolve(p) == [p EXCEPT !.dir = CanonDir(p.dir)]

Exists(p) == Resolve(p) \in DOMAIN fs

\* fs::rename(a, b): replaces b when it exists
Renamed(f, a, b) ==
    LET ra == Resolve(a)
        rb == Resolve(b)
    IN [q \in (DOMAIN f \ {ra}) \cup {rb} |-> IF q = rb THEN f[ra] ELSE f[q]]

RenameOk(a, b) == Exists(a) /\ DirExists(b.dir)

Removed(f, a) == [q \in DOMAIN f \ {Resolve(a)} |-> f[q]]

Copied(f, a, b) ==
    LET ra == Resolve(a)
        rb == Resolve(b)
    IN [q \in DOMAIN f \cup {rb} |-> IF q = rb THEN f[ra] ELSE f[q]]

Rev(s) == [i \in 1..Len(s) |-> s[Len(s) + 1 - i]]

\* a filter that keeps every candidate
SelectAll(cs) == cs

\* plan.candidates.iter().filter(|c| c.changed)
RECURSIVE SelectChanged(_)
SelectChanged(cs) ==
    IF cs = <<>> THEN <<>>
    ELSE IF Head(cs).changed THEN <<Head(cs)>> \o SelectChanged(Tail(cs))
         ELSE SelectChanged(Tail(cs))

(************************ apply: validation ********************************)
plan_jpg_roots(p) == IF p.jpg_roots = <<>> THEN <<p.jpg_root>> ELSE p.jpg_roots

\* canonicalize_jpg_roots: <<ok, canonical roots without duplicates>>
RECURSIVE CanonRootsFrom(_, _, _)
CanonRootsFrom(raw, i, out) ==
    IF i > Len(raw) THEN <<TRUE, out>>
    ELSE IF ~DirExists(raw[i]) THEN <<FALSE, <<>>>>
    ELSE LET c == CanonDir(raw[i])
         IN IF \E k \in 1..Len(out) : out[k] = c
            THEN CanonRootsFrom(raw, i + 1, out)
            ELSE CanonRootsFrom(raw, i + 1, Append(out, c))

canonicalize_jpg_roots(raw) ==
    IF raw = <<>> THEN <<FALSE, <<>>>> ELSE CanonRootsFrom(raw, 1, <<>>)

\* HashSet::insert that forgets the path
SeenAfterLost(seen, x) == seen

\* HashSet::insert on seen_original_paths / seen_target_paths
SeenAfter(seen, x) == seen \cup {x}

path_within_any_root(p, roots) == \E k \in 1..Len(roots) : StartsWith(p, roots[k])

\* a containment test that accepts every directory
dir_within_no_check(d, roots) == TRUE

dir_within_any_root(d, roots) == \E k \in 1..Len(roots) : IsPrefix(roots[k], d)

RECURSIVE ValidateFrom(_, _, _, _, _)
ValidateFrom(cands, i, roots, seenO, seenT) ==
    IF i > Len(cands) THEN "ok"
    ELSE LET c  == cands[i]
             oc == Resolve(c.original_path)
             tp == CanonDir(c.target_path.dir)
             nt == [c.target_path EXCEPT !.dir = tp]
         IN IF ~Exists(c.original_path) THEN "original_unresolved"
            ELSE IF ~path_within_any_root(oc, roots) THEN "original_outside"
            ELSE IF oc \in seenO THEN "duplicate_original"
            ELSE IF ~DirExists(c.target_path.dir) THEN "target_parent_unresolved"
            ELSE IF ~dir_within_any_root(tp, roots) THEN "target_outside"
            ELSE IF nt \in seenT THEN "duplicate_target"
            ELSE ValidateFrom(cands, i + 1, roots, SeenAfter(seenO, oc), SeenAfter(seenT, nt))

validate_apply_candidates(p, cands) ==
    LET r == canonicalize_jpg_roots(plan_jpg_roots(p))
    IN IF ~r[1] THEN "root_unresolved"
       ELSE ValidateFrom(cands, 1, r[2], {}, {})

temp_path_for(original, index) == [dir |-> original.dir, name |-> TMP, n |-> index]

(************************ apply: inputs ************************************)
Candidate(o, t, ch) == [original_path |-> o, target_path |-> t, changed |-> ch]

OrigPaths == {P(JPG, "a"), P(JPG, "b"), P(JPG, "c"), P(LNK, "a"), P(OUT, "a")}
TargetPaths == {P(JPG, "a"), P(JPG, "b"), P(JPG, "c"), P(LNK, "c"), P(OUT, "c")}
\* changed candidates name any pair; an unchanged one is what the planner emits
\* (target = original), or a caller's record whose flag contradicts its paths
Candidates ==
    {Candidate(o, t, TRUE) : o \in OrigPaths, t \in TargetPaths}
    \cup {Candidate(P(JPG, "a"), P(JPG, "a"), FALSE), Candidate(P(JPG, "b"), P(JPG, "c"), FALSE)}

SeqsUpTo(S, n) == UNION {[1..k -> S] : k \in 0..n}

RootChoices == {<<>>, <<JPG, OUT>>}

Plans ==
    {[jpg_root |-> JPG, jpg_roots |-> rs, candidates |-> cs] :
        rs \in RootChoices, cs \in SeqsUpTo(Candidates, MaxCands)}

\* a journal left by an earlier apply that renamed jpg/z to jpg/b
OldLog ==
    [operations |-> <<[from |-> P(JPG, "z"), to |-> P(JPG, "b")]>>,
     backup_originals |-> FALSE,
     jpg_root |-> <<JPG>>,
     jpg_roots |-> <<>>,
     backup_paths |-> <<>>]

NoLoc ==
    [candidates |-> <<>>, staged |-> <<>>, operations |-> <<>>, backup_paths |-> <<>>,
     jobs |-> <<>>, pending |-> {}, roots |-> <<>>, idx |-> 0, err |-> "none",
     rollback |-> "none", restored |-> 0, ret |-> "none"]

NoResult ==
    [call |-> "none", ok |-> TRUE, kind |-> "none", rollback |-> "none",
     cleanup |-> "none", applied |-> 0, unchanged |-> 0, restored |-> 0]

ApplyErr(kind, rb, cl) ==
    [call |-> "apply", ok |-> FALSE, kind |-> kind, rollback |-> rb,
     cleanup |-> cl, applied |-> 0, unchanged |-> 0, restored |-> 0]

ApplyOk(a, u) ==
    [call |-> "apply", ok |-> TRUE, kind |-> "none", rollback |-> "none",
     cleanup |-> "none", applied |-> a, unchanged |-> u, restored |-> 0]

Op(kind, a, b) == [op |-> kind, from |-> a, to |-> b]

Snapshot(f, ds, j) == [fs |-> f, dirs |-> ds, journal |-> j]

InitFiles == (P(JPG, "a") :> 1) @@ (P(JPG, "b") :> 2) @@ (P(OUT, "a") :> 3)

Init ==
    /\ fs = InitFiles
    /\ dirs = {JPG, OUT}
    /\ links = (LNK :> OUT)
    /\ journal \in {<<>>, <<OldLog>>}
    /\ pc = "idle"
    /\ phase = "fresh"
    /\ plan = [jpg_root |-> JPG, jpg_roots |-> <<>>, candidates |-> <<>>]
    /\ opts = [backup_originals |-> FALSE]
    /\ loc = NoLoc
    /\ result = NoResult
    /\ oplog = <<>>
    /\ faults = 0
    /\ pre = Snapshot(InitFiles, {JPG, OUT}, journal)
    /\ aresult = NoResult

(************************ apply: the call **********************************)
\* apply_plan_with_options_with_paths up to the first filesystem mutation
ApplyStart(p, o) ==
    /\ pc = "idle"
    /\ phase = "fresh"
    /\ plan' = p
    /\ opts' = o
    /\ pre' = Snapshot(fs, dirs, journal)
    /\ oplog' = <<>>
    /\ phase' = "applied"
    /\ LET cands == SelectChanged(p.candidates)
           v == validate_apply_candidates(p, cands)
       IN IF cands = <<>>
          THEN /\ result' = ApplyOk(0, Len(p.candidates))
               /\ pc' = "idle"
               /\ loc' = NoLoc
          ELSE IF v # "ok"
          THEN /\ result' = ApplyErr(v, "none", "none")
               /\ pc' = "idle"
               /\ loc' = NoLoc
          ELSE /\ result' = NoResult
               /\ pc' = IF o.backup_originals THEN "backup_roots" ELSE "stage"
               /\ loc' = [NoLoc EXCEPT !.candidates = cands, !.ret = "apply"]
    /\ UNCHANGED <<fs, dirs, links, journal, faults, aresult>>

\* a reverse walk that starts one entry late
RollbackFromShort(staged) == IF Len(staged) > 0 THEN Len(staged) - 1 ELSE 0

\* staged.iter().rev(): where rollback_staged_to_original_paths starts
RollbackFrom(staged) == Len(staged)

\* phase 1: rename the next original to its temp sibling
Stage ==
    /\ pc = "stage"
    /\ LET index == Len(loc.staged)
           c == loc.candidates[index + 1]
           entry == [original_path |-> c.original_path,
                     target_path |-> c.target_path,
                     temp_path |-> temp_path_for(c.original_path, index)]
       IN \/ /\ RenameOk(entry.original_path, entry.temp_path)
             /\ fs' = Renamed(fs, entry.original_path, entry.temp_path)
             /\ oplog' = Append(oplog, Op("stage", entry.original_path, entry.temp_path))
             /\ loc' = [loc EXCEPT !.staged = Append(@, entry)]
             /\ pc' = IF index + 1 = Len(loc.candidates) THEN "commit" ELSE "stage"
             /\ UNCHANGED faults
          \/ /\ faults < MaxFaults
             /\ faults' = faults + 1
             /\ loc' = [loc EXCEPT !.err = "stage", !.idx = RollbackFrom(loc.staged)]
             /\ pc' = "rb_staged"
             /\ UNCHANGED <<fs, oplog>>
    /\ UNCHANGED <<dirs, links, journal, phase, plan, opts, result, pre, aresult>>

\* a rollback that misses the last committed entry
CommittedSliceShort(finalized) == IF finalized > 0 THEN finalized - 1 ELSE 0

\* staged[..finalized]: the entries rollback_after_final_rename_failure walks back
CommittedSlice(finalized) == finalized

\* committing from the last staged entry backwards
staged_reversed(staged, finalized) == staged[Len(staged) - finalized]

\* staged.iter().enumerate(): the entry committed after `finalized` others
staged_in_order(staged, finalized) == staged[finalized + 1]

\* phase 2: rename the next temp to its target
Commit ==
    /\ pc = "commit"
    /\ LET finalized == Len(loc.operations)
           entry == staged_in_order(loc.staged, finalized)
       IN \/ /\ RenameOk(entry.temp_path, entry.target_path)
             /\ fs' = Renamed(fs, entry.temp_path, entry.target_path)
             /\ oplog' = Append(oplog, Op("commit", entry.temp_path, entry.target_path))
             /\ loc' = [loc EXCEPT !.operations =
                            Append(@, [from |-> entry.original_path, to |-> entry.target_path])]
             /\ pc' = IF finalized + 1 = Len(loc.staged) THEN "persist" ELSE "commit"
             /\ UNCHANGED faults
          \/ /\ faults < MaxFaults
             /\ faults' = faults + 1
             /\ loc' = [loc EXCEPT !.err = "commit", !.idx = CommittedSlice(finalized)]
             /\ pc' = "rb_final"
             /\ UNCHANGED <<fs, oplog>>
    /\ UNCHANGED <<dirs, links, journal, phase, plan, opts, result, pre, aresult>>

\* rollback_after_final_rename_failure: committed targets back to their temps
RollbackFinal ==
    /\ pc = "rb_final"
    /\ IF loc.idx = 0
       THEN /\ pc' = "rb_staged"
            /\ loc' = [loc EXCEPT !.idx = RollbackFrom(loc.staged)]
            /\ UNCHANGED <<fs, oplog, faults, result, phase>>
       ELSE LET entry == loc.staged[loc.idx]
            IN IF ~Exists(entry.target_path)
               THEN /\ loc' = [loc EXCEPT !.idx = @ - 1]
                    /\ UNCHANGED <<fs, oplog, faults, result, pc, phase>>
               ELSE \/ /\ fs' = Renamed(fs, entry.target_path, entry.temp_path)
                       /\ oplog' = Append(oplog, Op("uncommit", entry.target_path, entry.temp_path))
                       /\ loc' = [loc EXCEPT !.idx = @ - 1]
                       /\ UNCHANGED <<faults, result, pc, phase>>
                    \/ /\ faults < MaxFaults
                       /\ faults' = faults + 1
                       /\ result' = ApplyErr(loc.err, "failed", "none")
                       /\ pc' = "idle"
                       /\ UNCHANGED <<fs, oplog, loc, phase>>
    /\ UNCHANGED <<dirs, links, journal, plan, opts, pre, aresult>>

\* rollback_staged_to_original_paths: temps back to the originals, last staged first
RollbackStaged ==
    /\ pc = "rb_staged"
    /\ IF loc.idx = 0
       THEN /\ result' = ApplyErr(loc.err, "ok", "none")
            /\ pc' = "idle"
            /\ UNCHANGED <<fs, oplog, faults, loc>>
       ELSE LET entry == loc.staged[loc.idx]
            IN IF ~Exists(entry.temp_path)
               THEN /\ loc' = [loc EXCEPT !.idx = @ - 1]
                    /\ UNCHANGED <<fs, oplog, faults, result, pc>>
               ELSE \/ /\ fs' = Renamed(fs, entry.temp_path, entry.original_path)
                       /\ oplog' = Append(oplog, Op("unstage", entry.temp_path, entry.original_path))
                       /\ loc' = [loc EXCEPT !.idx = @ - 1]
                       /\ UNCHANGED <<faults, result, pc>>
                    \/ /\ faults < MaxFaults
                       /\ faults' = faults + 1
                       /\ result' = ApplyErr(loc.err, "failed", "none")
                       /\ pc' = "idle"
                       /\ UNCHANGED <<fs, oplog, loc>>
    /\ UNCHANGED <<dirs, links, journal, phase, plan, opts, pre, aresult>>

(************************ apply: backups ***********************************)
BackupRoot(root) == Append(root, "backup")

Parent(d) == SubSeq(d, 1, Len(d) - 1)

\* fs::create_dir_all: the directory and every missing ancestor
WithDirAll(ds, d) == ds \cup {SubSeq(CanonDir(d), 1, k) : k \in 1..Len(CanonDir(d))}

\* pick_most_specific_root: the longest root that is a prefix of d, as <<found, root>>
pick_most_specific_root(d, roots) ==
    LET hits == {k \in 1..Len(roots) : IsPrefix(roots[k], d)}
    IN IF hits = {} THEN <<FALSE, <<>>>>
       ELSE <<TRUE, roots[CHOOSE k \in hits : \A j \in hits : Len(roots[j]) <= Len(roots[k])]>>

\* unique_backup_path_with_reserved: candidate, else candidate_001, _002, ...
unique_backup_path_with_reserved(c, reserved) ==
    LET free(k) == ~Exists([c EXCEPT !.n = k]) /\ [c EXCEPT !.n = k] \notin reserved
        top == Cardinality(reserved) + Cardinality(DOMAIN fs) + 1
    IN [c EXCEPT !.n = CHOOSE k \in 0..top : free(k) /\ \A j \in 0..(k - 1) : ~free(j)]

\* resolve_backup_path_with_reserved: mirror the path relative to the root
resolve_backup_path_with_reserved(backup_root, jpg_root, original, reserved) ==
    IF StartsWith(original, jpg_root)
    THEN unique_backup_path_with_reserved(
            [original EXCEPT !.dir = backup_root \o SubSeq(original.dir, Len(jpg_root) + 1,
                                                           Len(original.dir))], reserved)
    ELSE unique_backup_path_with_reserved([original EXCEPT !.dir = backup_root], reserved)

\* the sequential reservation loop of backup_original_files
RECURSIVE BackupJobsFrom(_, _, _, _, _)
BackupJobsFrom(cands, i, roots, reserved, jobs) ==
    IF i > Len(cands) THEN jobs
    ELSE LET oc == Resolve(cands[i].original_path)
             root == pick_most_specific_root(oc.dir, roots)[2]
             bp == resolve_backup_path_with_reserved(CanonDir(BackupRoot(root)), root, oc,
                                                     reserved)
         IN BackupJobsFrom(cands, i + 1, roots, reserved \cup {bp},
                           Append(jobs, [src |-> cands[i].original_path, dst |-> bp]))

\* the containment test of the backup folder left out
backup_root_unchecked(jpg_root, backup_root_canonical) == TRUE

\* backup_root_canonical.starts_with(jpg_root)
backup_root_within(jpg_root, backup_root_canonical) ==
    IsPrefix(jpg_root, backup_root_canonical)

\* create, canonicalize and check the backup folder of the next root
BackupRoots ==
    /\ pc = "backup_roots"
    /\ LET roots == canonicalize_jpg_roots(plan_jpg_roots(plan))[2]
           k == loc.idx + 1
           backup_root == BackupRoot(roots[k])
       IN \/ /\ dirs' = WithDirAll(dirs, backup_root)
             /\ IF ~backup_root_within(roots[k], CanonDir(backup_root))
                THEN /\ result' = ApplyErr("backup_outside", "none", "none")
                     /\ pc' = "idle"
                     /\ UNCHANGED loc
                ELSE IF k < Len(roots)
                THEN /\ loc' = [loc EXCEPT !.idx = k]
                     /\ UNCHANGED <<pc, result>>
                ELSE /\ loc' = [loc EXCEPT
                            !.idx = 0,
                            !.roots = roots,
                            !.jobs = BackupJobsFrom(loc.candidates, 1, roots, {}, <<>>),
                            !.pending = 1..Len(loc.candidates)]
                     /\ pc' = "backup_copy"
                     /\ UNCHANGED result
             /\ UNCHANGED faults
          \/ /\ faults < MaxFaults
             /\ faults' = faults + 1
             /\ result' = ApplyErr("backup", "none", "none")
             /\ pc' = "idle"
             /\ UNCHANGED <<dirs, loc>>
    /\ UNCHANGED <<fs, links, journal, phase, plan, opts, oplog, pre, aresult>>

\* one copy worker finishes (or fails) one job; the jobs run in any order
BackupCopy ==
    /\ pc = "backup_copy"
    /\ \E j \in loc.pending :
         LET job == loc.jobs[j]
         IN \/ /\ dirs' = WithDirAll(dirs, job.dst.dir)
               /\ fs' = Copied(fs, job.src, job.dst)
               /\ oplog' = Append(oplog, Op("backup", job.src, job.dst))
               /\ loc' = [loc EXCEPT
                            !.pending = @ \ {j},
                            !.backup_paths =
                                IF loc.pending = {j}
                                THEN [i \in 1..Len(loc.jobs) |-> loc.jobs[i].dst]
                                ELSE @]
               /\ pc' = IF loc.pending = {j} THEN "stage" ELSE "backup_copy"
               /\ UNCHANGED <<faults, result>>
            \/ /\ faults < MaxFaults
               /\ faults' = faults + 1
               /\ result' = ApplyErr("backup", "none", "none")
               /\ pc' = "idle"
               /\ UNCHANGED <<fs, dirs, oplog, loc>>
    /\ UNCHANGED <<links, journal, phase, plan, opts, pre, aresult>>

(************************ journal ******************************************)
\* write_file_atomically that leaves a journal already there as it is
write_file_keeping_old(old, body) ==
    {[ok |-> TRUE, file |-> IF old = <<>> THEN <<body>> ELSE old, cost |-> 0]}

\* write_file_atomically on the journal: the results it can end in, each with the
\* number of failing filesystem calls it takes
write_file_atomically(old, body) ==
    {[ok |-> TRUE, file |-> <<body>>, cost |-> 0],
     [ok |-> FALSE, file |-> old, cost |-> 1]}
    \cup (IF old # <<>>
          THEN {[ok |-> TRUE, file |-> <<body>>, cost |-> 1],
                [ok |-> FALSE, file |-> <<>>, cost |-> 2]}
          ELSE {})

\* a subtraction that always yields 0
saturating_to_zero(a, b) == 0

\* usize::saturating_sub
saturating_sub(a, b) == IF a >= b THEN a - b ELSE 0

\* persist_undo
Persist ==
    /\ pc = "persist"
    /\ LET log == [operations |-> loc.operations,
                   backup_originals |-> opts.backup_originals,
                   jpg_root |-> <<plan.jpg_root>>,
                   jpg_roots |-> plan_jpg_roots(plan),
                   backup_paths |-> loc.backup_paths]
       IN \E w \in write_file_atomically(journal, log) :
            /\ faults + w.cost <= MaxFaults
            /\ faults' = faults + w.cost
            /\ journal' = w.file
            /\ IF w.ok
               THEN /\ result' = ApplyOk(Len(loc.operations),
                                         saturating_sub(Len(plan.candidates),
                                                        Len(loc.operations)))
                    /\ oplog' = Append(oplog, Op("journal", P(<<>>, "tmp"), P(<<>>, "undo")))
                    /\ pc' = "idle"
                    /\ UNCHANGED loc
               ELSE /\ loc' = [loc EXCEPT !.err = "persist", !.idx = Len(loc.operations)]
                    /\ pc' = "rb_persist"
                    /\ UNCHANGED <<result, oplog>>
    /\ UNCHANGED <<fs, dirs, links, phase, plan, opts, pre, aresult>>

\* rollback_after_undo_persist_failure: committed targets back to the originals
RollbackPersist ==
    /\ pc = "rb_persist"
    /\ IF loc.idx = 0
       THEN /\ loc' = [loc EXCEPT !.rollback = "ok", !.idx = 1,
                                  !.roots = plan_jpg_roots(plan)]
            /\ pc' = "cleanup"
            /\ UNCHANGED <<fs, oplog, faults>>
       ELSE LET operation == loc.operations[loc.idx]
            IN IF ~Exists(operation.to)
               THEN /\ loc' = [loc EXCEPT !.idx = @ - 1]
                    /\ UNCHANGED <<fs, oplog, faults, pc>>
               ELSE \/ /\ fs' = Renamed(fs, operation.to, operation.from)
                       /\ oplog' = Append(oplog, Op("revert", operation.to, operation.from))
                       /\ loc' = [loc EXCEPT !.idx = @ - 1]
                       /\ UNCHANGED <<faults, pc>>
                    \/ /\ faults < MaxFaults
                       /\ faults' = faults + 1
                       /\ loc' = [loc EXCEPT !.rollback = "failed", !.idx = 1,
                                             !.roots = plan_jpg_roots(plan)]
                       /\ pc' = "cleanup"
                       /\ UNCHANGED <<fs, oplog>>
    /\ UNCHANGED <<dirs, links, journal, phase, plan, opts, result, pre, aresult>>

(************************ backup cleanup ***********************************)
\* directory_is_empty answering yes whatever the directory holds
directory_always_empty(ds, f, d) == TRUE

directory_is_empty(ds, f, d) ==
    /\ \A q \in DOMAIN f : q.dir # d
    /\ \A x \in ds : Len(x) = 0 \/ Parent(x) # d
    /\ \A l \in DOMAIN links : Parent(l) # d

\* remove_empty_dirs_until: the directories left after walking up from start
RECURSIVE remove_empty_dirs_until(_, _, _, _)
remove_empty_dirs_until(ds, f, start, stop) ==
    IF start = stop \/ ~IsPrefix(stop, start) THEN ds
    ELSE IF start \notin ds \/ ~directory_is_empty(ds, f, start) THEN ds
    ELSE remove_empty_dirs_until(ds \ {start}, f, Parent(start), stop)

BackupRootsOf(roots) == [k \in 1..Len(roots) |-> BackupRoot(roots[k])]

\* the last loop of cleanup_backup_if_needed: drop every empty backup folder
RECURSIVE RemoveEmptyBackupRoots(_, _, _, _)
RemoveEmptyBackupRoots(ds, f, broots, k) ==
    IF k > Len(broots) THEN ds
    ELSE LET d == CanonDir(broots[k])
         IN IF d \in ds /\ directory_is_empty(ds, f, d)
            THEN RemoveEmptyBackupRoots(ds \ {d}, f, broots, k + 1)
            ELSE RemoveEmptyBackupRoots(ds, f, broots, k + 1)

UndoErr(kind, n) ==
    [call |-> "undo", ok |-> FALSE, kind |-> kind, rollback |-> "none",
     cleanup |-> "none", applied |-> 0, unchanged |-> 0, restored |-> n]

UndoOk(n) ==
    [call |-> "undo", ok |-> TRUE, kind |-> "none", rollback |-> "none",
     cleanup |-> "none", applied |-> 0, unchanged |-> 0, restored |-> n]

\* where cleanup_backup_if_needed returns to: the failed apply, or undo_last
CleanupReturns(status) ==
    IF loc.ret = "apply"
    THEN /\ result' = ApplyErr("persist", loc.rollback, status)
         /\ pc' = "idle"
    ELSE IF status = "ok"
    THEN /\ pc' = "undo_remove"
         /\ UNCHANGED result
    ELSE /\ result' = UndoErr("cleanup", loc.restored)
         /\ pc' = "idle"

\* cleanup_backup_if_needed: one recorded backup file per step, then the folders
Cleanup ==
    /\ pc = "cleanup"
    /\ IF loc.backup_paths = <<>>
       THEN /\ CleanupReturns("ok")
            /\ UNCHANGED <<fs, dirs, oplog, faults, loc>>
       ELSE IF loc.idx > Len(loc.backup_paths)
       THEN \/ /\ dirs' = RemoveEmptyBackupRoots(dirs, fs, BackupRootsOf(loc.roots), 1)
               /\ CleanupReturns("ok")
               /\ UNCHANGED <<fs, oplog, faults, loc>>
            \/ /\ faults < MaxFaults
               /\ \E k \in 1..Len(loc.roots) :
                     /\ CanonDir(BackupRoot(loc.roots[k])) \in dirs
                     /\ directory_is_empty(dirs, fs, CanonDir(BackupRoot(loc.roots[k])))
               /\ faults' = faults + 1
               /\ CleanupReturns("failed")
               /\ UNCHANGED <<fs, dirs, oplog, loc>>
       ELSE LET backup_path == loc.backup_paths[loc.idx]
                root == pick_most_specific_root(backup_path.dir, BackupRootsOf(loc.roots))
            IN IF ~Exists(backup_path)
               THEN /\ loc' = [loc EXCEPT !.idx = @ + 1]
                    /\ UNCHANGED <<fs, dirs, oplog, faults, pc, result>>
               ELSE \/ /\ fs' = Removed(fs, backup_path)
                       /\ dirs' = IF root[1]
                                  THEN remove_empty_dirs_until(dirs, Removed(fs, backup_path),
                                                               backup_path.dir, root[2])
                                  ELSE dirs
                       /\ oplog' = Append(oplog, Op("unbackup", backup_path, backup_path))
                       /\ loc' = [loc EXCEPT !.idx = @ + 1]
                       /\ UNCHANGED <<faults, pc, result>>
                    \/ /\ faults < MaxFaults
                       /\ faults' = faults + 1
                       /\ CleanupReturns("failed")
                       /\ UNCHANGED <<fs, dirs, oplog, loc>>
    /\ UNCHANGED <<links, journal, phase, plan, opts, pre, aresult>>

(************************ undo *********************************************)
\* normalize_path_within_roots without the containment test
normalize_path_unchecked(path, roots) == <<TRUE, Resolve(path)>>

\* normalize_path_within_roots: <<ok, canonical parent joined with the file name>>
normalize_path_within_roots(path, roots) ==
    IF ~DirExists(path.dir) THEN <<FALSE, path>>
    ELSE IF ~pick_most_specific_root(CanonDir(path.dir), roots)[1] THEN <<FALSE, path>>
    ELSE <<TRUE, Resolve(path)>>

RECURSIVE ValidateOpsFrom(_, _, _, _, _, _)
ValidateOpsFrom(ops, i, roots, seenF, seenT, out) ==
    IF i > Len(ops) THEN <<"ok", out>>
    ELSE LET nf == normalize_path_within_roots(ops[i].from, roots)
             nt == normalize_path_within_roots(ops[i].to, roots)
         IN IF ~nf[1] THEN <<"from_outside", <<>>>>
            ELSE IF ~nt[1] THEN <<"to_outside", <<>>>>
            ELSE IF nf[2] \in seenF THEN <<"duplicate_from", <<>>>>
            ELSE IF nt[2] \in seenT THEN <<"duplicate_to", <<>>>>
            ELSE ValidateOpsFrom(ops, i + 1, roots, seenF \cup {nf[2]}, seenT \cup {nt[2]},
                                 Append(out, [from |-> nf[2], to |-> nt[2]]))

\* Path::is_dir: the path names a directory
IsDir(p) == p.n = 0 /\ DirExists(Append(p.dir, p.name))

RECURSIVE ValidateBackupsFrom(_, _, _, _)
ValidateBackupsFrom(bps, i, broots, out) ==
    IF i > Len(bps) THEN <<"ok", out>>
    ELSE IF IsDir(bps[i]) THEN <<"backup_is_dir", <<>>>>
    ELSE IF ~Exists(bps[i]) THEN ValidateBackupsFrom(bps, i + 1, broots, out)
    ELSE LET nb == normalize_path_within_roots(bps[i], broots)
         IN IF ~nb[1] THEN <<"backup_outside", <<>>>>
            ELSE ValidateBackupsFrom(bps, i + 1, broots, Append(out, nb[2]))

\* validate_undo_log: [kind, operations, jpg_roots, backup_paths]
validate_undo_log(log) ==
    LET raw == IF log.jpg_roots # <<>> THEN log.jpg_roots ELSE log.jpg_root
        r == canonicalize_jpg_roots(raw)
        bad(k) == [kind |-> k, operations |-> <<>>, jpg_roots |-> <<>>, backup_paths |-> <<>>]
    IN IF raw = <<>> THEN bad("no_root")
       ELSE IF ~r[1] THEN bad("root_unresolved")
       ELSE LET o == ValidateOpsFrom(log.operations, 1, r[2], {}, {}, <<>>)
            IN IF o[1] # "ok" THEN bad(o[1])
               ELSE IF ~log.backup_originals
               THEN [kind |-> "ok", operations |-> o[2], jpg_roots |-> r[2],
                     backup_paths |-> <<>>]
               ELSE LET b == ValidateBackupsFrom(log.backup_paths, 1, BackupRootsOf(r[2]), <<>>)
                    IN IF b[1] # "ok" THEN bad(b[1])
                       ELSE [kind |-> "ok", operations |-> o[2], jpg_roots |-> r[2],
                             backup_paths |-> b[2]]

\* undo_last up to the first rename: read and validate the journal
UndoEntry ==
    /\ pc = "idle"
    /\ oplog' = <<>>
    /\ IF journal = <<>>
       THEN /\ result' = UndoErr("no_history", 0)
            /\ UNCHANGED <<pc, loc>>
       ELSE LET v == validate_undo_log(journal[1])
            IN IF v.kind # "ok"
               THEN /\ result' = UndoErr(v.kind, 0)
                    /\ UNCHANGED <<pc, loc>>
               ELSE /\ loc' = [NoLoc EXCEPT !.operations = v.operations,
                                            !.roots = v.jpg_roots,
                                            !.backup_paths = v.backup_paths,
                                            !.idx = Len(v.operations),
                                            !.ret = "undo"]
                    /\ pc' = "undo_restore"
                    /\ result' = NoResult
    /\ pre' = Snapshot(fs, dirs, journal)
    /\ aresult' = result
    /\ UNCHANGED <<fs, dirs, links, journal, plan, opts, faults>>

\* the first undo_last after the apply
UndoStart ==
    /\ phase = "applied"
    /\ phase' = "undone"
    /\ UndoEntry

\* undo_last called once more, no apply in between
UndoAgain ==
    /\ phase = "undone"
    /\ result.call = "undo"
    /\ phase' = "undone_again"
    /\ UndoEntry

\* operations.iter().rev() read from the front instead
FwdNext(operations, remaining) == operations[Len(operations) + 1 - remaining]

\* operations.iter().rev(): the operation visited when `remaining` are still to visit
RevNext(operations, remaining) == operations[remaining]

\* restore_operations: the recorded renames backwards, last recorded first
UndoRestore ==
    /\ pc = "undo_restore"
    /\ IF loc.idx = 0
       THEN /\ loc' = [loc EXCEPT !.idx = 1]
            /\ pc' = "cleanup"
            /\ UNCHANGED <<fs, oplog, faults, result>>
       ELSE LET op == RevNext(loc.operations, loc.idx)
            IN IF ~Exists(op.to)
               THEN /\ loc' = [loc EXCEPT !.idx = @ - 1]
                    /\ UNCHANGED <<fs, oplog, faults, result, pc>>
               ELSE \/ /\ fs' = Renamed(fs, op.to, op.from)
                       /\ oplog' = Append(oplog, Op("restore", op.to, op.from))
                       /\ loc' = [loc EXCEPT !.idx = @ - 1, !.restored = @ + 1]
                       /\ UNCHANGED <<faults, result, pc>>
                    \/ /\ faults < MaxFaults
                       /\ faults' = faults + 1
                       /\ result' = UndoErr("restore", loc.restored)
                       /\ pc' = "idle"
                       /\ UNCHANGED <<fs, oplog, loc>>
    /\ UNCHANGED <<dirs, links, journal, phase, plan, opts, pre, aresult>>

\* the end of undo_last: delete the journal
\* fs::remove_file(&paths.undo_path) leaving the file where it is
journal_kept(j) == j

\* fs::remove_file(&paths.undo_path): the journal file is gone
journal_removed(j) == <<>>

UndoRemove ==
    /\ pc = "undo_remove"
    /\ \/ /\ journal' = journal_removed(journal)
          /\ result' = UndoOk(loc.restored)
          /\ UNCHANGED faults
       \/ /\ faults < MaxFaults
          /\ faults' = faults + 1
          /\ result' = UndoErr("journal_remove", loc.restored)
          /\ UNCHANGED journal
    /\ pc' = "idle"
    /\ UNCHANGED <<fs, dirs, links, phase, plan, opts, loc, oplog, pre, aresult>>

ApplyCall ==
    /\ pc = "idle"
    /\ phase = "fresh"
    /\ \E p \in Plans, b \in BOOLEAN : ApplyStart(p, [backup_originals |-> b])

Next ==
    \/ ApplyCall
    \/ BackupRoots
    \/ BackupCopy
    \/ Stage
    \/ Commit
    \/ RollbackFinal
    \/ RollbackStaged
    \/ Persist
    \/ RollbackPersist
    \/ Cleanup
    \/ UndoStart
    \/ UndoRestore
    \/ UndoRemove

Spec == Init /\ [][Next]_vars

(************************ apply, undo, and undo once more *******************)
\* an apply, the undo_last after it, and undo_last called again over the journal the
\* failed undo_last left
NextUndoRetry ==
    \/ ApplyCall
    \/ BackupRoots
    \/ BackupCopy
    \/ Stage
    \/ Commit
    \/ RollbackFinal
    \/ RollbackStaged
    \/ Persist
    \/ RollbackPersist
    \/ Cleanup
    \/ UndoStart
    \/ UndoAgain
    \/ UndoRestore
    \/ UndoRemove

SpecUndoRetry == Init /\ [][NextUndoRetry]_vars

(************************ undo of an arbitrary journal **********************)
BAK == <<"jpg", "backup">>

UndoFroms == {P(JPG, "a"), P(JPG, "b"), P(OUT, "a")}

UndoTos == {P(JPG, "b"), P(JPG, "c"), P(LNK, "c")}

\* RenameOperation values a journal file may hold
RecordedOps == {[from |-> f, to |-> t] : f \in UndoFroms, t \in UndoTos} \ 
               {[from |-> x, to |-> x] : x \in UndoFroms}

\* backup_paths of a journal file: a backup inside jpg/backup, a file outside it, a
\* path that no longer exists, and the backup folder itself
RecordedBackups ==
    {<<>>, <<P(BAK, "a")>>, <<P(OUT, "a")>>, <<P(BAK, "z")>>, <<P(JPG, "backup")>>}

\* jpg_root (legacy, at most one) and jpg_roots of a journal file
RecordedRoots ==
    {[jpg_root |-> <<JPG>>, jpg_roots |-> <<>>],
     [jpg_root |-> <<>>, jpg_roots |-> <<JPG, OUT>>],
     [jpg_root |-> <<>>, jpg_roots |-> <<>>]}

UndoLogs ==
    {[operations |-> ops, backup_originals |-> b, jpg_root |-> r.jpg_root,
      jpg_roots |-> r.jpg_roots, backup_paths |-> bps] :
        ops \in SeqsUpTo(RecordedOps, MaxCands), b \in BOOLEAN,
        r \in RecordedRoots, bps \in RecordedBackups}

\* the files that are there whatever else is
KeptFiles == (P(OUT, "a") :> 3) @@ (P(BAK, "a") :> 9)

\* the files that may or may not be there when undo starts
LooseFiles == (P(JPG, "a") :> 1) @@ (P(JPG, "b") :> 2) @@ (P(JPG, "c") :> 4) @@ (P(OUT, "c") :> 5)

UndoFiles == {KeptFiles @@ [q \in S |-> LooseFiles[q]] : S \in SUBSET DOMAIN LooseFiles}

InitUndo ==
    /\ fs \in UndoFiles
    /\ dirs = {JPG, OUT, BAK}
    /\ links = (LNK :> OUT)
    /\ journal \in {<<>>} \cup {<<l>> : l \in UndoLogs}
    /\ pc = "idle"
    /\ phase = "applied"
    /\ plan = [jpg_root |-> JPG, jpg_roots |-> <<>>, candidates |-> <<>>]
    /\ opts = [backup_originals |-> FALSE]
    /\ loc = NoLoc
    /\ result = NoResult
    /\ oplog = <<>>
    /\ faults = 0
    /\ pre = Snapshot(fs, dirs, journal)
    /\ aresult = NoResult

NextUndo ==
    \/ UndoStart
    \/ UndoRestore
    \/ Cleanup
    \/ UndoRemove

SpecUndo == InitUndo /\ [][NextUndo]_vars

\* undo_last called up to twice over an arbitrary journal
NextUndoTwice ==
    \/ UndoStart
    \/ UndoAgain
    \/ UndoRestore
    \/ Cleanup
    \/ UndoRemove

SpecUndoTwice == InitUndo /\ [][NextUndoTwice]_vars

(************************ undo of a journal that records backups ************)
BAKSUB == <<"jpg", "backup", "sub">>
OUTBAK == <<"out", "backup">>

\* backup_paths of a journal: up to two of a backup in jpg/backup, one in jpg/backup/sub
\* and one that is no longer there
BackupPathLists ==
    {bps \in SeqsUpTo({P(BAK, "a"), P(BAKSUB, "a"), P(BAK, "z")}, 2) :
        \A i, j \in 1..Len(bps) : i # j => bps[i] # bps[j]}

BackupLogs ==
    {[operations |-> ops, backup_originals |-> b, jpg_root |-> r.jpg_root,
      jpg_roots |-> r.jpg_roots, backup_paths |-> bps] :
        ops \in {<<>>, <<[from |-> P(JPG, "a"), to |-> P(JPG, "b")]>>},
        b \in BOOLEAN,
        r \in {[jpg_root |-> <<JPG>>, jpg_roots |-> <<>>],
               [jpg_root |-> <<>>, jpg_roots |-> <<JPG, OUT>>]},
        bps \in BackupPathLists}

\* files of the backup tree that may be there: the recorded ones and two nobody recorded
BackupTreeFiles ==
    (P(BAK, "a") :> 6) @@ (P(BAK, "u") :> 7) @@ (P(BAKSUB, "a") :> 8) @@ (P(BAKSUB, "u") :> 9)

BackupUndoFiles ==
    {((P(JPG, "b") :> 1) @@ (P(OUT, "a") :> 3)) @@ [q \in S |-> BackupTreeFiles[q]] :
        S \in SUBSET DOMAIN BackupTreeFiles}

InitBackupUndo ==
    /\ fs \in BackupUndoFiles
    /\ dirs \in {{JPG, OUT, BAK, BAKSUB}, {JPG, OUT, BAK, BAKSUB, OUTBAK}}
    /\ links = (LNK :> OUT)
    /\ journal \in {<<l>> : l \in BackupLogs}
    /\ pc = "idle"
    /\ phase = "applied"
    /\ plan = [jpg_root |-> JPG, jpg_roots |-> <<>>, candidates |-> <<>>]
    /\ opts = [backup_originals |-> FALSE]
    /\ loc = NoLoc
    /\ result = NoResult
    /\ oplog = <<>>
    /\ faults = 0
    /\ pre = Snapshot(fs, dirs, journal)
    /\ aresult = NoResult

SpecBackupUndo == InitBackupUndo /\ [][NextUndo]_vars

(************************ apply with backups, then undo *********************)
SUB == <<"jpg", "sub">>
STORE == <<"jpg", "store">>

\* changed candidates of plans applied with backups: originals in the root, in a folder
\* under it and behind the symlink jpg/lnk
BackupCandidates ==
    {Candidate(o, t, TRUE) :
        o \in {P(JPG, "a"), P(JPG, "b"), P(SUB, "a"), P(LNK, "a")},
        t \in {P(JPG, "c"), P(SUB, "c"), P(LNK, "c")}}

BackupPlans ==
    {[jpg_root |-> JPG, jpg_roots |-> rs, candidates |-> cs] :
        rs \in RootChoices, cs \in SeqsUpTo(BackupCandidates, MaxCands)}

BackupInitFiles == InitFiles @@ (P(SUB, "a") :> 4)

\* what jpg/backup is before the apply: missing, a folder holding an older backup of
\* jpg/a, a folder whose entry sub is a symlink back to it, a symlink to out, or a
\* symlink to jpg/store
BackupFolderStates ==
    {[fs |-> BackupInitFiles, dirs |-> {JPG, OUT, SUB}, links |-> (LNK :> OUT)],
     [fs |-> BackupInitFiles @@ (P(BAK, "a") :> 7), dirs |-> {JPG, OUT, SUB, BAK},
      links |-> (LNK :> OUT)],
     [fs |-> BackupInitFiles, dirs |-> {JPG, OUT, SUB, BAK},
      links |-> (LNK :> OUT) @@ (BAKSUB :> BAK)],
     [fs |-> BackupInitFiles, dirs |-> {JPG, OUT, SUB}, links |-> (LNK :> OUT) @@ (BAK :> OUT)],
     [fs |-> BackupInitFiles, dirs |-> {JPG, OUT, SUB, STORE},
      links |-> (LNK :> OUT) @@ (BAK :> STORE)]}

InitBackup ==
    /\ \E st \in BackupFolderStates :
          /\ fs = st.fs
          /\ dirs = st.dirs
          /\ links = st.links
    /\ journal = <<>>
    /\ pc = "idle"
    /\ phase = "fresh"
    /\ plan = [jpg_root |-> JPG, jpg_roots |-> <<>>, candidates |-> <<>>]
    /\ opts = [backup_originals |-> TRUE]
    /\ loc = NoLoc
    /\ result = NoResult
    /\ oplog = <<>>
    /\ faults = 0
    /\ pre = Snapshot(fs, dirs, journal)
    /\ aresult = NoResult

\* apply_plan_with_options called with backup_originals set
ApplyBackupCall ==
    /\ pc = "idle"
    /\ phase = "fresh"
    /\ \E p \in BackupPlans : ApplyStart(p, [backup_originals |-> TRUE])

NextBackup ==
    \/ ApplyBackupCall
    \/ BackupRoots
    \/ BackupCopy
    \/ Stage
    \/ Commit
    \/ RollbackFinal
    \/ RollbackStaged
    \/ Persist
    \/ RollbackPersist
    \/ Cleanup
    \/ UndoStart
    \/ UndoRestore
    \/ UndoRemove

SpecBackup == InitBackup /\ [][NextBackup]_vars

(************************ order of paths ************************************)
\* byte values of the printable ASCII characters the model uses
Ascii ==
    (" " :> 32) @@ ("!" :> 33) @@ ("#" :> 35) @@ ("$" :> 36) @@ ("%" :> 37)
      @@ ("&" :> 38) @@ ("'" :> 39) @@ ("(" :> 40) @@ (")" :> 41) @@ ("*" :> 42)
      @@ ("+" :> 43) @@ ("," :> 44) @@ ("-" :> 45) @@ ("." :> 46) @@ ("/" :> 47)
      @@ ("0" :> 48) @@ ("1" :> 49) @@ ("2" :> 50) @@ ("3" :> 51) @@ ("4" :> 52)
      @@ ("5" :> 53) @@ ("6" :> 54) @@ ("7" :> 55) @@ ("8" :> 56) @@ ("9" :> 57)
      @@ (":" :> 58) @@ (";" :> 59) @@ ("<" :> 60) @@ ("=" :> 61) @@ (">" :> 62)
      @@ ("?" :> 63) @@ ("@" :> 64) @@ ("A" :> 65) @@ ("B" :> 66) @@ ("C" :> 67)
      @@ ("D" :> 68) @@ ("E" :> 69) @@ ("F" :> 70) @@ ("G" :> 71) @@ ("H" :> 72)
      @@ ("I" :> 73) @@ ("J" :> 74) @@ ("K" :> 75) @@ ("L" :> 76) @@ ("M" :> 77)
      @@ ("N" :> 78) @@ ("O" :> 79) @@ ("P" :> 80) @@ ("Q" :> 81) @@ ("R" :> 82)
      @@ ("S" :> 83) @@ ("T" :> 84) @@ ("U" :> 85) @@ ("V" :> 86) @@ ("W" :> 87)
      @@ ("X" :> 88) @@ ("Y" :> 89) @@ ("Z" :> 90) @@ ("[" :> 91) @@ ("]" :> 93)
      @@ ("^" :> 94) @@ ("_" :> 95) @@ ("a" :> 97) @@ ("b" :> 98) @@ ("c" :> 99)
      @@ ("d" :> 100) @@ ("e" :> 101) @@ ("f" :> 102) @@ ("g" :> 103) @@ ("h" :> 104)
      @@ ("i" :> 105) @@ ("j" :> 106) @@ ("k" :> 107) @@ ("l" :> 108) @@ ("m" :> 109)
      @@ ("n" :> 110) @@ ("o" :> 111) @@ ("p" :> 112) @@ ("q" :> 113) @@ ("r" :> 114)
      @@ ("s" :> 115) @@ ("t" :> 116) @@ ("u" :> 117) @@ ("v" :> 118) @@ ("w" :> 119)
      @@ ("x" :> 120) @@ ("y" :> 121) @@ ("z" :> 122) @@ ("{" :> 123) @@ ("|" :> 124)
      @@ ("}" :> 125) @@ ("~" :> 126)

\* byte-wise order of two file names
NameLess(a, b) ==
    \E i \in 1..(Len(a) + 1) :
       /\ i <= Len(b)
       /\ \A j \in 1..(i - 1) : j <= Len(a) /\ a[j] = b[j]
       /\ (i > Len(a) \/ (a[i] # b[i] /\ Ascii[a[i]] < Ascii[b[i]]))

\* Ord of PathBuf: component by component
PathLess(p, q) ==
    \E i \in 1..(Len(p) + 1) :
       /\ i <= Len(q)
       /\ \A j \in 1..(i - 1) : j <= Len(p) /\ p[j] = q[j]
       /\ (i > Len(p) \/ (p[i] # q[i] /\ NameLess(p[i], q[i])))

(************************ planner: collision resolution *********************)
MaxLen == 9
MaxSuffix == 3

D1 == <<"d">>
D2 == <<"e">>

EXT_JPG == <<".", "j", "p", "g">>
EXT_JPEG == <<".", "j", "p", "e", "g">>

\* Path::join: a file name (its characters) under a directory
PJoin(parent, file) == [dir |-> parent, file |-> file]

\* Path::extension with the dot put back: from the last dot on, empty without one
extension(file) ==
    LET dots == {i \in 2..Len(file) : file[i] = "."}
    IN IF dots = {} THEN <<>>
       ELSE SubSeq(file, CHOOSE i \in dots : \A j \in dots : j <= i, Len(file))

\* str::split('_')
RECURSIVE Split(_)
Split(s) ==
    LET us == {i \in 1..Len(s) : s[i] = "_"}
    IN IF us = {} THEN <<s>>
       ELSE LET i == CHOOSE x \in us : \A y \in us : x <= y
            IN <<SubSeq(s, 1, i - 1)>> \o Split(SubSeq(s, i + 1, Len(s)))

\* tokens.join("_")
RECURSIVE Join(_)
Join(tokens) ==
    IF Len(tokens) = 0 THEN <<>>
    ELSE IF Len(tokens) = 1 THEN tokens[1]
    ELSE tokens[1] \o <<"_">> \o Join(Tail(tokens))

\* the while loop of truncate_filename_if_needed: <<found, candidate>>
RECURSIVE PopUntilFits(_, _, _)
PopUntilFits(tokens, ext_len, limit) ==
    IF Len(tokens) <= 1 THEN <<FALSE, <<>>>>
    ELSE LET popped == SubSeq(tokens, 1, Len(tokens) - 1)
             candidate == Join(popped)
         IN IF Len(candidate) + ext_len <= limit THEN <<TRUE, candidate>>
            ELSE PopUntilFits(popped, ext_len, limit)

truncate_filename_if_needed(filename_without_ext, extension_with_dot, limit) ==
    LET ext_len == Len(extension_with_dot)
        keep == IF limit > ext_len THEN limit - ext_len ELSE 0
        popped == PopUntilFits(Split(filename_without_ext), ext_len, limit)
    IN IF Len(filename_without_ext) + ext_len <= limit THEN filename_without_ext
       ELSE IF popped[1] THEN popped[2]
       ELSE SubSeq(filename_without_ext, 1, keep)

Digits == <<"0", "1", "2", "3", "4", "5", "6", "7", "8", "9">>

\* format!("_{:03}", n), for n below 1000
Suffix(n) ==
    <<"_", Digits[((n \div 100) % 10) + 1], Digits[((n \div 10) % 10) + 1], Digits[(n % 10) + 1]>>

\* is_available with the claimed paths left out
is_available_unclaimed(candidate, original_path, planned_paths) ==
    IF candidate = original_path THEN TRUE
    ELSE candidate \notin DOMAIN fs

is_available(candidate, original_path, planned_paths) ==
    IF candidate \in planned_paths THEN FALSE
    ELSE IF candidate = original_path THEN TRUE
    ELSE candidate \notin DOMAIN fs

\* the JPG files a scan may hand to the planner
PlanOrigPaths ==
    {PJoin(D1, <<"x">> \o EXT_JPG), PJoin(D1, <<"y">> \o EXT_JPEG),
     PJoin(D1, <<"a">> \o EXT_JPG), PJoin(D1, <<"a">> \o Suffix(1) \o EXT_JPG),
     PJoin(D2, <<"x">> \o EXT_JPG)}

\* file names the template may render for a file, once sanitized
Stems == {<<"a">>, <<"a", "b">>, <<"a", "_", "b">>}

JpgInputs == {[jpg_path |-> p, sanitized |-> s] : p \in PlanOrigPaths, s \in Stems}

\* the components of a path: its directory, then its file name
Components(path) == <<path.dir, path.file>>

in_any_order(files) == TRUE

\* out.sort() / resolved_files.sort(): the files are handed over ordered by path
in_path_order(files) ==
    \A i, j \in 1..Len(files) :
       i < j => PathLess(Components(files[i].jpg_path), Components(files[j].jpg_path))

\* the sorted lists of different files a scan may produce
JpgFileLists == {fl \in SeqsUpTo(JpgInputs, MaxCands) : in_path_order(fl)}

MaxFilenameLens == (Len(EXT_JPG) - 1)..MaxLen

PlanLoc(files, limit) ==
    [options |-> [max_filename_len |-> limit], jpg_files |-> files, prepared |-> <<>>,
     candidates |-> <<>>, planned_paths |-> {}, idx |-> 1, n |-> 0,
     stats |-> [planned |-> 0, unchanged |-> 0]]

InitPlan ==
    /\ \E files \in JpgFileLists, limit \in MaxFilenameLens :
          /\ loc = PlanLoc(files, limit)
          /\ pc = IF files = <<>> THEN "resolve" ELSE "prepare"
          /\ \E S \in SUBSET PlanOrigPaths :
                /\ \A i \in 1..Len(files) : files[i].jpg_path \in S
                /\ fs = [q \in S |-> 1]
    /\ dirs = {D1, D2}
    /\ links = <<>>
    /\ journal = <<>>
    /\ phase = "planning"
    /\ plan = [jpg_root |-> D1, jpg_roots |-> <<>>, candidates |-> <<>>,
               stats |-> [planned |-> 0, unchanged |-> 0]]
    /\ opts = [backup_originals |-> FALSE]
    /\ result = NoResult
    /\ oplog = <<>>
    /\ faults = 0
    /\ pre = Snapshot(fs, dirs, journal)
    /\ aresult = NoResult

\* prepare_candidate: the rendered name is bounded to the length limit
PrepareCandidate ==
    /\ pc = "prepare"
    /\ loc.idx <= Len(loc.jpg_files)
    /\ LET input == loc.jpg_files[loc.idx]
           ext == extension(input.jpg_path.file)
           rendered_base == truncate_filename_if_needed(input.sanitized, ext,
                                                        loc.options.max_filename_len)
           last == loc.idx = Len(loc.jpg_files)
       IN /\ loc' = [loc EXCEPT !.prepared = Append(@, [original_path |-> input.jpg_path,
                                                         rendered_base |-> rendered_base,
                                                         extension |-> ext]),
                                !.idx = IF last THEN 1 ELSE @ + 1]
          /\ pc' = IF last THEN "resolve" ELSE "prepare"
    /\ UNCHANGED <<fs, dirs, links, journal, phase, plan, opts, result, oplog, faults,
                   pre, aresult>>

\* the loop body counting every candidate as changed
PushedAsChanged(l, prepared, target) ==
    [l EXCEPT !.planned_paths = @ \cup {target},
              !.candidates = Append(@, [original_path |-> prepared.original_path,
                                        target_path |-> target,
                                        rendered_base |-> prepared.rendered_base,
                                        changed |-> TRUE]),
              !.stats = [planned |-> @.planned + 1, unchanged |-> @.unchanged],
              !.idx = @ + 1,
              !.n = 0]

\* the body of the planning loop after resolve_collision returned target
Pushed(l, prepared, target) ==
    LET changed == target # prepared.original_path
    IN [l EXCEPT !.planned_paths = @ \cup {target},
                 !.candidates = Append(@, [original_path |-> prepared.original_path,
                                           target_path |-> target,
                                           rendered_base |-> prepared.rendered_base,
                                           changed |-> changed]),
                 !.stats = [planned |-> @.planned + 1,
                            unchanged |-> @.unchanged + (IF changed THEN 0 ELSE 1)],
                 !.idx = @ + 1,
                 !.n = 0]

\* the path resolve_collision tries first: the rendered base itself
BaseCandidate(prepared) ==
    PJoin(prepared.original_path.dir, prepared.rendered_base \o prepared.extension)

\* the path tried in the turn of the loop with the suffix _00n
SuffixCandidate(prepared, n, max_len) ==
    PJoin(prepared.original_path.dir,
          truncate_filename_if_needed(prepared.rendered_base \o Suffix(n),
                                      prepared.extension, max_len)
             \o prepared.extension)

\* resolve_collision up to its loop: the rendered name itself
ResolveCollision ==
    /\ pc = "resolve"
    /\ loc.idx <= Len(loc.prepared)
    /\ LET prepared == loc.prepared[loc.idx]
           candidate == PJoin(prepared.original_path.dir,
                              prepared.rendered_base \o prepared.extension)
       IN IF is_available(candidate, prepared.original_path, loc.planned_paths)
          THEN /\ loc' = Pushed(loc, prepared, candidate)
               /\ UNCHANGED pc
          ELSE /\ loc' = [loc EXCEPT !.n = 1]
               /\ pc' = "suffix"
    /\ UNCHANGED <<fs, dirs, links, journal, phase, plan, opts, result, oplog, faults,
                   pre, aresult>>

\* one turn of the loop of resolve_collision: the name with the suffix _00n. A turn
\* whose suffix was cut away by the length bounding tries the base path, whatever n
\* is: there the counter, which the code lets grow without bound, is folded back
ResolveSuffix ==
    /\ pc = "suffix"
    /\ loc.n <= MaxSuffix
    /\ LET prepared == loc.prepared[loc.idx]
           base == truncate_filename_if_needed(prepared.rendered_base \o Suffix(loc.n),
                                               prepared.extension,
                                               loc.options.max_filename_len)
           candidate == PJoin(prepared.original_path.dir, base \o prepared.extension)
       IN IF is_available(candidate, prepared.original_path, loc.planned_paths)
          THEN /\ loc' = Pushed(loc, prepared, candidate)
               /\ pc' = "resolve"
          ELSE /\ loc' = [loc EXCEPT !.n = IF candidate = BaseCandidate(prepared)
                                                 /\ loc.n = MaxSuffix
                                              THEN 1 ELSE @ + 1]
               /\ UNCHANGED pc
    /\ UNCHANGED <<fs, dirs, links, journal, phase, plan, opts, result, oplog, faults,
                   pre, aresult>>

\* the end of generate_plan_with_resolved_jpg_input: Ok(RenamePlan)
PlanReturn ==
    /\ pc = "resolve"
    /\ loc.idx > Len(loc.prepared)
    /\ plan' = [jpg_root |-> D1, jpg_roots |-> <<>>, candidates |-> loc.candidates,
                stats |-> loc.stats]
    /\ pc' = "planned"
    /\ UNCHANGED <<fs, dirs, links, journal, phase, opts, loc, result, oplog, faults,
                   pre, aresult>>

NextPlan ==
    \/ PrepareCandidate
    \/ ResolveCollision
    \/ ResolveSuffix
    \/ PlanReturn

SpecPlan == InitPlan /\ [][NextPlan]_vars

(************************ planner: the loop of resolve_collision ************)
\* the loop has no exit but an available candidate, and the scheduler keeps running
\* the planner
SpecPlanFair == SpecPlan /\ WF_vars(NextPlan)

(************************ metadata resolution (planner.rs, metadata.rs) ****)
\* The six optional fields of PartialMetadata
Fields == {"date", "camera_make", "camera_model", "lens_make", "lens_model", "film_sim"}

\* Option::None of a field
None == "none"

\* how many fields a source may hold, or lack, in the explored inputs
MetaEdge == 1

\* PartialMetadata::default(): every field absent
DefaultMeta == [f \in Fields |-> None]

\* metadata read from source s holding the fields of S; a value names the source it
\* was read from
MetaOf(s, S) == [f \in Fields |-> IF f \in S THEN s ELSE None]

FieldSets ==
    {S \in SUBSET Fields :
        \/ Cardinality(S) <= MetaEdge
        \/ Cardinality(S) >= Cardinality(Fields) - MetaEdge}

\* a companion or the JPEG as the readers find it: no such file, a file the reader
\* fails on, or a file the reader turns into partial metadata
SourceFiles(s) ==
    {[state |-> "absent", meta |-> DefaultMeta],
     [state |-> "unreadable", meta |-> DefaultMeta]}
       \cup {[state |-> "ok", meta |-> MetaOf(s, S)] : S \in FieldSets}

\* Option<PartialMetadata>
NoMeta == [some |-> FALSE, meta |-> DefaultMeta]

SomeMeta(m) == [some |-> TRUE, meta |-> m]

\* Result::ok() of a reader's result
ok(file) == IF file.state = "ok" THEN SomeMeta(file.meta) ELSE NoMeta

merge_overriding(self, fallback) ==
    [f \in Fields |-> IF fallback[f] # None THEN fallback[f] ELSE self[f]]

\* PartialMetadata::merge_missing_from
merge_missing_from(self, fallback) ==
    [f \in Fields |-> IF self[f] = None THEN fallback[f] ELSE self[f]]

metadata_has_missing_fields(meta) == \E f \in Fields : meta[f] = None

metadata_changed(a, b) == \E f \in Fields : a[f] # b[f]

merge_with_jpg_fallback(base, jpg_exif_meta) ==
    IF jpg_exif_meta.some THEN merge_missing_from(base, jpg_exif_meta.meta) ELSE base

\* file_modified_to_local(jpg_path).unwrap_or_else(Local::now)
fallback_date_of(modified) == IF modified THEN "mtime" ELSE "now"

to_photo_metadata_keeping_source(partial, source, fallback_date) ==
    [source |-> source,
     date |-> IF partial["date"] = None THEN fallback_date ELSE partial["date"],
     camera_make |-> partial["camera_make"],
     camera_model |-> partial["camera_model"],
     lens_make |-> partial["lens_make"],
     lens_model |-> partial["lens_model"],
     film_sim |-> partial["film_sim"]]

to_photo_metadata(partial, source, fallback_date) ==
    [source |-> IF partial["date"] = None THEN "FallbackFileModified" ELSE source,
     date |-> IF partial["date"] = None THEN fallback_date ELSE partial["date"],
     camera_make |-> partial["camera_make"],
     camera_model |-> partial["camera_model"],
     lens_make |-> partial["lens_make"],
     lens_model |-> partial["lens_model"],
     film_sim |-> partial["film_sim"]]

ResolvedUnlessDegraded(metadata) ==
    [call |-> "resolve_metadata", ok |-> metadata.source # "FallbackFileModified",
     metadata |-> metadata]

\* Ok(ResolvedMetadata { .. }): every return of resolve_metadata
ResolvedOk(metadata) ==
    [call |-> "resolve_metadata", ok |-> TRUE, metadata |-> metadata]

\* the locals of resolve_metadata before its first statement
MetaLoc ==
    [fallback_date |-> None, xmp_path |-> FALSE, raw_path |-> FALSE,
     jpg_exif_loaded |-> FALSE, jpg_exif_meta_cache |-> NoMeta,
     raw_exif_loaded |-> FALSE, raw_exif_cache |-> NoMeta,
     merged |-> DefaultMeta, source |-> None]

InitMeta ==
    /\ \E x \in SourceFiles("xmp"), r \in SourceFiles("raw"),
          j \in SourceFiles("jpg"), modified \in BOOLEAN :
          /\ j.state # "absent"
          /\ fs = [xmp |-> x, raw |-> r, jpg |-> j, modified |-> modified]
    /\ \E raw_root \in BOOLEAN : opts = [raw_root |-> raw_root]
    /\ loc = MetaLoc
    /\ pc = "meta_start"
    /\ phase = "preparing"
    /\ dirs = {}
    /\ links = <<>>
    /\ journal = <<>>
    /\ plan = <<>>
    /\ result = NoResult
    /\ oplog = <<>>
    /\ faults = 0
    /\ pre = <<>>
    /\ aresult = NoResult

\* load_raw_exif_meta: the RAW companion is read once, a failed read is no metadata
LoadRawExif(l) ==
    IF l.raw_exif_loaded THEN l
    ELSE [l EXCEPT !.raw_exif_loaded = TRUE,
                   !.raw_exif_cache = IF l.raw_path THEN ok(fs.raw) ELSE NoMeta]

\* load_jpg_exif_meta: the JPEG's own EXIF is read once, a failed read is no metadata
LoadJpgExif(l) ==
    IF l.jpg_exif_loaded THEN l
    ELSE [l EXCEPT !.jpg_exif_loaded = TRUE, !.jpg_exif_meta_cache = ok(fs.jpg)]

MetaUnchanged ==
    UNCHANGED <<fs, dirs, links, journal, phase, plan, opts, result, oplog, faults,
                pre, aresult>>

\* the fallback date, and with a companion root the lookup of sidecar and RAW file
MetaStart ==
    /\ pc = "meta_start"
    /\ loc' = [loc EXCEPT !.fallback_date = fallback_date_of(fs.modified),
                          !.xmp_path = opts.raw_root /\ fs.xmp.state # "absent",
                          !.raw_path = opts.raw_root /\ fs.raw.state # "absent"]
    /\ pc' = IF ~opts.raw_root THEN "jpg_branch"
             ELSE IF fs.xmp.state # "absent" THEN "read_xmp"
             ELSE "raw_branch"
    /\ MetaUnchanged

\* match read_xmp_metadata(&xmp_path)
ReadXmp ==
    /\ pc = "read_xmp"
    /\ IF fs.xmp.state = "ok"
       THEN /\ loc' = [loc EXCEPT !.merged = fs.xmp.meta, !.source = "Xmp"]
            /\ pc' = IF metadata_has_missing_fields(fs.xmp.meta)
                     THEN "xmp_merge_raw" ELSE "xmp_merge_jpg"
       ELSE /\ loc' = loc
            /\ pc' = "raw_branch"
    /\ MetaUnchanged

\* the sidecar lacks fields: fill them from the RAW file's EXIF
XmpMergeRaw ==
    /\ pc = "xmp_merge_raw"
    /\ LET l == LoadRawExif(loc)
           before == l.merged
           after == merge_missing_from(before, l.raw_exif_cache.meta)
       IN  loc' = IF l.raw_exif_cache.some
                  THEN [l EXCEPT !.merged = after,
                                 !.source = IF metadata_changed(before, after)
                                            THEN "XmpAndRawExif" ELSE "Xmp"]
                  ELSE l
    /\ pc' = "xmp_merge_jpg"
    /\ MetaUnchanged

\* fields still missing are filled from the JPEG's own EXIF
MergeJpg ==
    /\ pc \in {"xmp_merge_jpg", "raw_merge_jpg"}
    /\ IF metadata_has_missing_fields(loc.merged)
       THEN LET l == LoadJpgExif(loc)
            IN  loc' = [l EXCEPT !.merged =
                           merge_with_jpg_fallback(l.merged, l.jpg_exif_meta_cache)]
       ELSE loc' = loc
    /\ pc' = "meta_return"
    /\ MetaUnchanged

\* the sidecar is missing or unparsable: the RAW file's EXIF is the primary source
RawBranch ==
    /\ pc = "raw_branch"
    /\ LET l == LoadRawExif(loc)
       IN  IF l.raw_exif_cache.some
           THEN /\ loc' = [l EXCEPT !.merged = l.raw_exif_cache.meta,
                                    !.source = "RawExif"]
                /\ pc' = "raw_merge_jpg"
           ELSE /\ loc' = l
                /\ pc' = "jpg_branch"
    /\ MetaUnchanged

\* neither companion is usable: the JPEG's own EXIF, or nothing
JpgBranch ==
    /\ pc = "jpg_branch"
    /\ LET l == LoadJpgExif(loc)
       IN  loc' = [l EXCEPT !.merged = l.jpg_exif_meta_cache.meta,
                            !.source = "JpgExif"]
    /\ pc' = "meta_return"
    /\ MetaUnchanged

MetaReturn ==
    /\ pc = "meta_return"
    /\ result' = ResolvedOk(to_photo_metadata(loc.merged, loc.source,
                                              loc.fallback_date))
    /\ pc' = "meta_done"
    /\ UNCHANGED <<fs, dirs, links, journal, phase, plan, opts, loc, oplog, faults,
                   pre, aresult>>

\* prepare_candidate passes an error of resolve_metadata on, and the first error
\* among the prepared results ends plan generation
PrepareCollect ==
    /\ pc = "meta_done"
    /\ phase = "preparing"
    /\ phase' = IF result.ok THEN "prepared" ELSE "aborted"
    /\ UNCHANGED <<fs, dirs, links, journal, pc, plan, opts, loc, result, oplog,
                   faults, pre, aresult>>

NextMeta ==
    \/ MetaStart
    \/ ReadXmp
    \/ XmpMergeRaw
    \/ MergeJpg
    \/ RawBranch
    \/ JpgBranch
    \/ MetaReturn
    \/ PrepareCollect

SpecMeta == InitMeta /\ [][NextMeta]_vars

(************************ template parsing (template.rs) *******************)
\* the longest template explored
MaxTemplateLen == 6

\* characters of the explored templates: the two braces and three letters, which
\* spell the token "day" and otherwise literal text and unknown tokens
TemplateChars == {"{", "}", "d", "a", "y"}

Templates == UNION {[1..n -> TemplateChars] : n \in 0..MaxTemplateLen}

\* the names parse_token knows, and the Token each stands for
TokenTable ==
    {<< <<"d","a","t","e">>, "Date" >>,
     << <<"y","e","a","r">>, "Year" >>,
     << <<"m","o","n","t","h">>, "Month" >>,
     << <<"d","a","y">>, "Day" >>,
     << <<"h","o","u","r">>, "Hour" >>,
     << <<"m","i","n","u","t","e">>, "Minute" >>,
     << <<"s","e","c","o","n","d">>, "Second" >>,
     << <<"c","a","m","e","r","a","_","m","a","k","e","r">>, "CameraMake" >>,
     << <<"c","a","m","e","r","a","_","m","o","d","e","l">>, "CameraModel" >>,
     << <<"l","e","n","s","_","m","a","k","e","r">>, "LensMake" >>,
     << <<"l","e","n","s","_","m","o","d","e","l">>, "LensModel" >>,
     << <<"f","i","l","m","_","s","i","m">>, "FilmSim" >>,
     << <<"o","r","i","g","_","n","a","m","e">>, "OrigName" >>}

\* the Err(UnknownToken) outcome of parse_token
UnknownName == "unknown"

parse_token_lenient(token) ==
    IF \E t \in TokenTable : t[1] = token
    THEN (CHOOSE t \in TokenTable : t[1] = token)[2]
    ELSE "OrigName"

parse_token(token) ==
    IF \E t \in TokenTable : t[1] = token
    THEN (CHOOSE t \in TokenTable : t[1] = token)[2]
    ELSE UnknownName

\* TemplatePart::Literal and TemplatePart::Token
Literal(text) == [part |-> "Literal", text |-> text]

TokenPart(tok) == [part |-> "Token", text |-> <<tok>>]

\* parts.push(Literal(take(literal))) when the literal is not empty
FlushLiteral(parts, literal) ==
    IF literal # <<>> THEN Append(parts, Literal(literal)) ELSE parts

TemplateErr(kind, token) ==
    [call |-> "parse_template", ok |-> FALSE, kind |-> kind, token |-> token,
     parts |-> <<>>]

TemplateOk(parts) ==
    [call |-> "parse_template", ok |-> TRUE, kind |-> "none", token |-> <<>>,
     parts |-> parts]

InitTemplate ==
    /\ \E input \in Templates :
          loc = [input |-> input, pos |-> 1, parts |-> <<>>, literal |-> <<>>,
                 token |-> <<>>]
    /\ pc = "parse_start"
    /\ phase = "parsing"
    /\ fs = <<>>
    /\ dirs = {}
    /\ links = <<>>
    /\ journal = <<>>
    /\ plan = <<>>
    /\ opts = <<>>
    /\ result = NoResult
    /\ oplog = <<>>
    /\ faults = 0
    /\ pre = <<>>
    /\ aresult = NoResult

TemplateUnchanged ==
    UNCHANGED <<fs, dirs, links, journal, phase, plan, opts, oplog, faults, pre,
                aresult>>

\* the empty template is rejected before the scan
ParseStart ==
    /\ pc = "parse_start"
    /\ IF loc.input = <<>>
       THEN /\ result' = TemplateErr("Empty", <<>>)
            /\ pc' = "parse_done"
       ELSE /\ result' = result
            /\ pc' = "scan"
    /\ loc' = loc
    /\ TemplateUnchanged

\* one turn of the outer loop: a character outside braces
ScanChar ==
    /\ pc = "scan"
    /\ loc.pos <= Len(loc.input)
    /\ LET ch == loc.input[loc.pos]
       IN  CASE ch = "{" ->
                   /\ loc' = [loc EXCEPT !.parts = FlushLiteral(loc.parts, loc.literal),
                                         !.literal = <<>>, !.token = <<>>,
                                         !.pos = loc.pos + 1]
                   /\ pc' = "token"
                   /\ result' = result
             [] ch = "}" ->
                   /\ loc' = loc
                   /\ pc' = "parse_done"
                   /\ result' = TemplateErr("UnbalancedBraces", <<>>)
             [] OTHER ->
                   /\ loc' = [loc EXCEPT !.literal = Append(loc.literal, ch),
                                         !.pos = loc.pos + 1]
                   /\ pc' = "scan"
                   /\ result' = result
    /\ TemplateUnchanged

\* one turn of the inner loop: a character after an open brace, or the end of input
ScanToken ==
    /\ pc = "token"
    /\ IF loc.pos > Len(loc.input)
       THEN /\ loc' = loc
            /\ pc' = "parse_done"
            /\ result' = TemplateErr("UnbalancedBraces", <<>>)
       ELSE LET next == loc.input[loc.pos]
            IN  CASE next = "}" ->
                        IF loc.token = <<>>
                        THEN /\ loc' = loc
                             /\ pc' = "parse_done"
                             /\ result' = TemplateErr("UnbalancedBraces", <<>>)
                        ELSE IF parse_token(loc.token) = UnknownName
                        THEN /\ loc' = loc
                             /\ pc' = "parse_done"
                             /\ result' = TemplateErr("UnknownToken", loc.token)
                        ELSE /\ loc' = [loc EXCEPT
                                           !.parts = Append(loc.parts,
                                                        TokenPart(parse_token(loc.token))),
                                           !.pos = loc.pos + 1]
                             /\ pc' = "scan"
                             /\ result' = result
                  [] next = "{" ->
                        /\ loc' = loc
                        /\ pc' = "parse_done"
                        /\ result' = TemplateErr("UnbalancedBraces", <<>>)
                  [] OTHER ->
                        /\ loc' = [loc EXCEPT !.token = Append(loc.token, next),
                                              !.pos = loc.pos + 1]
                        /\ pc' = "token"
                        /\ result' = result
    /\ TemplateUnchanged

\* the input is used up outside braces: the last literal, then the parts
ParseEnd ==
    /\ pc = "scan"
    /\ loc.pos > Len(loc.input)
    /\ LET parts == FlushLiteral(loc.parts, loc.literal)
       IN  /\ loc' = [loc EXCEPT !.parts = parts, !.literal = <<>>]
           /\ result' = IF parts = <<>> THEN TemplateErr("Empty", <<>>)
                        ELSE TemplateOk(parts)
    /\ pc' = "parse_done"
    /\ TemplateUnchanged

NextTemplate ==
    \/ ParseStart
    \/ ScanChar
    \/ ScanToken
    \/ ParseEnd

SpecTemplate == InitTemplate /\ [][NextTemplate]_vars

(************************ plan generation: input and scan (planner.rs) *****)
\* u8::to_ascii_lowercase
LowerChar(c) == IF c \in DOMAIN Ascii /\ Ascii[c] >= 65 /\ Ascii[c] <= 90
                THEN CHOOSE l \in DOMAIN Ascii : Ascii[l] = Ascii[c] + 32
                ELSE c

LowerName(name) == [i \in 1..Len(name) |-> LowerChar(name[i])]

\* is_jpg: the extension is jpg or jpeg, whatever the case
is_jpg(name) == LowerName(extension(name)) \in {EXT_JPG, EXT_JPEG}

\* is_hidden: the file name starts with a dot
is_hidden(name) == Len(name) > 0 /\ name[1] = "."

\* Vec::sort of paths that are pairwise different
RECURSIVE SortPaths(_)
SortPaths(S) ==
    IF S = {} THEN <<>>
    ELSE LET least == CHOOSE p \in S : \A q \in S \ {p} : PathLess(p, q)
         IN  <<least>> \o SortPaths(S \ {least})

SeqToSet(s) == {s[i] : i \in 1..Len(s)}

N_A_JPG == <<"a", ".", "j", "p", "g">>
N_B_JPEG == <<"b", ".", "J", "P", "E", "G">>
N_C_TXT == <<"c", ".", "t", "x", "t">>
N_H_JPG == <<".", "h", ".", "j", "p", "g">>
N_D_JPG == <<"d", ".", "j", "p", "g">>
N_E_JPG == <<"e", ".", "j", "p", "g">>
N_F_JPG == <<"f", ".", "j", "p", "g">>
N_S == <<"s">>
N_K == <<".", "k">>
N_N == <<"n">>
N_G == <<".", "g">>

\* paths below the scanned folder: the files that may exist, and the folders
ScanFiles ==
    {<<N_A_JPG>>, <<N_B_JPEG>>, <<N_C_TXT>>, <<N_H_JPG>>, <<N_S, N_D_JPG>>,
     <<N_K, N_E_JPG>>, <<N_K, N_N, N_F_JPG>>}

ScanDirs == {<<>>, <<N_S>>, <<N_K>>, <<N_K, N_N>>}

\* a link in the scanned folder that points to a folder elsewhere
ScanLink == <<N_G>>

\* an entry of the scanned tree: dir is what path.is_dir() answers (links are
\* followed), walked tells whether the walk descends into it (links are not followed)
Entry(path, dir, walked) == [path |-> path, dir |-> dir, walked |-> walked]

EntriesOf(files, linked) ==
    {Entry(p, FALSE, FALSE) : p \in files} \cup {Entry(d, TRUE, TRUE) : d \in ScanDirs}
       \cup (IF linked THEN {Entry(ScanLink, TRUE, FALSE)} ELSE {})

\* WalkDir::new(root).sort_by_file_name(): the folder, then its entries by name, each
\* subfolder followed by its own entries
WalkOrder(entries) ==
    LET paths == {e.path : e \in entries}
        sorted == SortPaths(paths)
    IN [i \in 1..Len(sorted) |-> CHOOSE e \in entries : e.path = sorted[i]]

\* walker.skip_current_dir(): the rest of the folder the walk is in is not visited;
\* that is the entry just yielded when the walk descends into it, else its parent
SkipCurrentDir(walker, entry) ==
    LET dir == IF entry.walked THEN entry.path
               ELSE SubSeq(entry.path, 1, Len(entry.path) - 1)
    IN  SelectSeq(walker, LAMBDA e : ~(Len(e.path) > Len(dir)
                                        /\ SubSeq(e.path, 1, Len(dir)) = dir))

LastName(path) == path[Len(path)]

\* RenameStats::default()
NoStats == [scanned_files |-> 0, jpg_files |-> 0, skipped_non_jpg |-> 0,
            skipped_hidden |-> 0]

\* what the loop body of collect_jpg_files does with a file
CountFile(l, path) ==
    IF is_hidden(LastName(path)) /\ ~opts.include_hidden
    THEN [l EXCEPT !.stats.skipped_hidden = @ + 1]
    ELSE IF is_jpg(LastName(path))
    THEN [l EXCEPT !.stats.scanned_files = @ + 1, !.stats.jpg_files = @ + 1,
                   !.out = Append(@, path)]
    ELSE [l EXCEPT !.stats.scanned_files = @ + 1, !.stats.skipped_non_jpg = @ + 1]

\* templates handed to plan generation: empty, unclosed, unknown token, a token
GenTemplates ==
    {<<>>, <<"{">>, <<"{", "a", "}">>, <<"{", "d", "a", "y", "}">>}

GenErr(kind) == [call |-> "generate_plan", ok |-> FALSE, kind |-> kind]

GenOk == [call |-> "generate_plan", ok |-> TRUE, kind |-> "none"]

\* no files and no counts before the input is resolved
NoInput == [jpg_files |-> <<>>, stats |-> NoStats]

InitGen ==
    /\ \E kind \in {"missing", "dir", "file_jpg", "file_txt"},
          raw \in {"missing", "file", "dir"},
          files \in SUBSET ScanFiles, linked \in BOOLEAN :
          /\ kind # "dir" => (files = {} /\ ~linked)
          /\ fs = [jpg |-> kind, raw |-> raw, entries |-> EntriesOf(files, linked)]
    /\ \E raw_input \in BOOLEAN, recursive \in BOOLEAN, include_hidden \in BOOLEAN,
          template \in GenTemplates :
          /\ (~raw_input => fs.raw = "dir")
          /\ (fs.jpg # "dir" => (recursive /\ include_hidden))
          /\ opts = [raw_input |-> raw_input, recursive |-> recursive,
                     include_hidden |-> include_hidden, template |-> template]
    /\ loc = [walker |-> <<>>, pending |-> {}, out |-> <<>>, stats |-> NoStats]
    /\ plan = NoInput
    /\ pc = "validate_raw"
    /\ phase = "generating"
    /\ dirs = {}
    /\ links = <<>>
    /\ journal = <<>>
    /\ result = NoResult
    /\ oplog = <<>>
    /\ faults = 0
    /\ pre = <<>>
    /\ aresult = NoResult

GenUnchanged == UNCHANGED <<fs, dirs, links, journal, phase, opts, faults, pre, aresult>>

\* validate_raw_input: a companion root, when given, exists and is a folder
ValidateRawInput ==
    /\ pc = "validate_raw"
    /\ IF ~opts.raw_input
       THEN /\ oplog' = oplog
            /\ result' = result
            /\ pc' = "resolve_input"
       ELSE /\ oplog' = Append(oplog, "stat_raw")
            /\ result' = IF fs.raw = "missing" THEN GenErr("raw_missing")
                         ELSE IF fs.raw # "dir" THEN GenErr("raw_not_dir")
                         ELSE result
            /\ pc' = IF fs.raw = "dir" THEN "resolve_input" ELSE "gen_done"
    /\ UNCHANGED <<loc, plan>>
    /\ GenUnchanged

\* resolve_jpg_input: a folder to scan, or one JPG file
ResolveJpgInput ==
    /\ pc = "resolve_input"
    /\ oplog' = Append(oplog, "stat_jpg")
    /\ CASE fs.jpg = "missing" ->
               /\ result' = GenErr("jpg_missing")
               /\ pc' = "gen_done"
               /\ UNCHANGED <<loc, plan>>
         [] fs.jpg = "dir" ->
               /\ result' = result
               /\ pc' = "collect"
               /\ loc' = [loc EXCEPT
                             !.walker = IF opts.recursive THEN WalkOrder(fs.entries)
                                        ELSE <<>>,
                             !.pending = IF opts.recursive THEN {}
                                         ELSE {e \in fs.entries : Len(e.path) = 1}]
               /\ plan' = plan
         [] fs.jpg = "file_jpg" ->
               /\ result' = result
               /\ pc' = "template"
               /\ loc' = loc
               /\ plan' = [jpg_files |-> << <<N_A_JPG>> >>,
                           stats |-> [NoStats EXCEPT !.scanned_files = 1,
                                                     !.jpg_files = 1]]
         [] OTHER ->
               /\ result' = GenErr("not_jpg")
               /\ pc' = "gen_done"
               /\ UNCHANGED <<loc, plan>>
    /\ GenUnchanged

\* collect_jpg_files, recursive: the next entry of the walk
WalkEntry ==
    /\ pc = "collect"
    /\ opts.recursive
    /\ loc.walker # <<>>
    /\ LET entry == Head(loc.walker)
           rest == Tail(loc.walker)
       IN  IF entry.dir
           THEN IF Len(entry.path) > 0 /\ ~opts.include_hidden
                   /\ is_hidden(LastName(entry.path))
                THEN loc' = [loc EXCEPT !.stats.skipped_hidden = @ + 1,
                                        !.walker = SkipCurrentDir(rest, entry)]
                ELSE loc' = [loc EXCEPT !.walker = rest]
           ELSE loc' = CountFile([loc EXCEPT !.walker = rest], entry.path)
    /\ oplog' = Append(oplog, "scan")
    /\ UNCHANGED <<plan, pc, result>>
    /\ GenUnchanged

\* collect_jpg_files, not recursive: the next entry of read_dir, in no special order
ReadDirEntry ==
    /\ pc = "collect"
    /\ ~opts.recursive
    /\ \E entry \in loc.pending :
          LET l == [loc EXCEPT !.pending = @ \ {entry}]
          IN  loc' = IF entry.dir THEN l ELSE CountFile(l, entry.path)
    /\ oplog' = Append(oplog, "scan")
    /\ UNCHANGED <<plan, pc, result>>
    /\ GenUnchanged

\* collect_jpg_files: out.sort(), and the files go to plan generation
ScanDone ==
    /\ pc = "collect"
    /\ loc.walker = <<>>
    /\ loc.pending = {}
    /\ plan' = [jpg_files |-> SortPaths(SeqToSet(loc.out)), stats |-> loc.stats]
    /\ pc' = "template"
    /\ UNCHANGED <<loc, result, oplog>>
    /\ GenUnchanged

\* generate_plan_with_resolved_jpg_input: parse_template(&options.template)
GenParseTemplate ==
    /\ pc = "template"
    /\ loc' = [input |-> opts.template, pos |-> 1, parts |-> <<>>, literal |-> <<>>,
               token |-> <<>>]
    /\ pc' = "parse_start"
    /\ UNCHANGED <<plan, result, oplog>>
    /\ GenUnchanged

\* the template error is passed on; otherwise every file is prepared, which reads
\* its metadata
GenPrepare ==
    /\ pc = "parse_done"
    /\ phase = "generating"
    /\ IF result.ok
       THEN /\ result' = GenOk
            /\ oplog' = oplog \o [i \in 1..Len(plan.jpg_files) |-> "read_metadata"]
       ELSE /\ result' = GenErr(result.kind)
            /\ oplog' = oplog
    /\ pc' = "gen_done"
    /\ UNCHANGED <<loc, plan>>
    /\ GenUnchanged

NextGen ==
    \/ ValidateRawInput
    \/ ResolveJpgInput
    \/ WalkEntry
    \/ ReadDirEntry
    \/ ScanDone
    \/ GenParseTemplate
    \/ ParseStart
    \/ ScanChar
    \/ ScanToken
    \/ ParseEnd
    \/ GenPrepare

SpecGen == InitGen /\ [][NextGen]_vars

(************************ filename rendering (template.rs, sanitize.rs) *****)
\* char::is_whitespace, for the characters of the model
Whitespace == {" "}

\* ch.is_whitespace() || ch == '-' || ch == '_'
Separators == {" ", "-", "_"}

\* the full-width plus sign U+FF0B, one character
FullwidthPlus == "U+FF0B"

\* characters a file name must not hold; backslash, double quote and NUL are named
Disallowed == {"/", ":", "*", "?", "<", ">", "|", "BACKSLASH", "QUOTE", "NUL"}

Indices(s) == [i \in 1..Len(s) |-> i]

MinOf(S) == CHOOSE x \in S : \A y \in S : x <= y

MaxOf(S) == CHOOSE x \in S : \A y \in S : y <= x

\* u8::to_ascii_uppercase
UpperChar(c) == IF c \in DOMAIN Ascii /\ Ascii[c] >= 97 /\ Ascii[c] <= 122
                THEN CHOOSE u \in DOMAIN Ascii : Ascii[u] = Ascii[c] - 32
                ELSE c

UpperName(name) == [i \in 1..Len(name) |-> UpperChar(name[i])]

\* str::trim_matches: the characters of set are cut from both ends
TrimMatches(s, set) ==
    LET keep == {i \in 1..Len(s) : s[i] \notin set}
    IN IF keep = {} THEN <<>> ELSE SubSeq(s, MinOf(keep), MaxOf(keep))

\* str::trim_end_matches
TrimEndMatches(s, set) ==
    LET keep == {i \in 1..Len(s) : s[i] \notin set}
    IN IF keep = {} THEN <<>> ELSE SubSeq(s, 1, MaxOf(keep))

\* each run of characters of seps becomes one sep
RunsTo(s, seps, sep) ==
    LET idx == SelectSeq(Indices(s),
                         LAMBDA i : ~(s[i] \in seps /\ i > 1 /\ s[i - 1] \in seps))
    IN [k \in 1..Len(idx) |-> IF s[idx[k]] \in seps THEN sep ELSE s[idx[k]]]

normalize_spaces_to_underscore(value) == RunsTo(value, Whitespace, "_")

replace_whitespace_runs(term, separator) == RunsTo(term, Whitespace, separator)

normalize_separator_variant(term, separator) == RunsTo(term, Separators, separator)

normalize_plus_char(input) ==
    [i \in 1..Len(input) |-> IF input[i] = FullwidthPlus THEN "+" ELSE input[i]]

\* separators right before a plus sign are dropped
compact_separator_before_plus(input) ==
    SelectSeq(Indices(input),
              LAMBDA i : ~(/\ input[i] \in Separators
                           /\ \E j \in (i + 1)..Len(input) :
                                 /\ input[j] = "+"
                                 /\ \A k \in (i + 1)..(j - 1) : input[k] \in Separators))

CompactBeforePlus(input) ==
    LET idx == compact_separator_before_plus(input)
    IN [k \in 1..Len(idx) |-> input[idx[k]]]

\* a separator is put after a plus sign that is followed by anything else
RECURSIVE EnsureAfterPlus(_, _, _)
EnsureAfterPlus(input, separator, i) ==
    IF i > Len(input) THEN <<>>
    ELSE (IF input[i] = "+" /\ i < Len(input)
             /\ input[i + 1] \notin (Separators \cup {"+"})
          THEN <<input[i], separator>> ELSE <<input[i]>>)
         \o EnsureAfterPlus(input, separator, i + 1)

ensure_separator_after_plus(input, separator) == EnsureAfterPlus(input, separator, 1)

push_unique_case_insensitive(values, value) ==
    IF value = <<>> THEN values
    ELSE IF \E i \in 1..Len(values) : LowerName(values[i]) = LowerName(value)
    THEN values
    ELSE Append(values, value)

\* the second half of build_exclusion_variants: the plus-sign forms of each variant
RECURSIVE ExpandPlus(_, _, _)
ExpandPlus(variants, snapshot, i) ==
    IF i > Len(snapshot) THEN variants
    ELSE LET value == snapshot[i]
             a == push_unique_case_insensitive(variants, CompactBeforePlus(value))
             b == push_unique_case_insensitive(a, ensure_separator_after_plus(value, "-"))
             c == push_unique_case_insensitive(b, ensure_separator_after_plus(value, "_"))
         IN  ExpandPlus(c, snapshot, i + 1)

build_exclusion_variants(term) ==
    LET canonical == normalize_plus_char(term)
        v1 == push_unique_case_insensitive(<<>>, canonical)
        v2 == push_unique_case_insensitive(v1, replace_whitespace_runs(canonical, "-"))
        v3 == push_unique_case_insensitive(v2, replace_whitespace_runs(canonical, "_"))
        v4 == push_unique_case_insensitive(v3, normalize_separator_variant(canonical, "-"))
        v5 == push_unique_case_insensitive(v4, normalize_separator_variant(canonical, "_"))
    IN  ExpandPlus(v5, v5, 1)

\* the loop of replace_case_insensitive, from position cursor on
RECURSIVE ReplaceFrom(_, _, _)
ReplaceFrom(haystack, needle, cursor) ==
    LET lower_hay == LowerName(haystack)
        lower_needle == LowerName(needle)
        hits == {i \in cursor..(Len(haystack) - Len(needle) + 1) :
                    SubSeq(lower_hay, i, i + Len(needle) - 1) = lower_needle}
    IN  IF hits = {} THEN SubSeq(haystack, cursor, Len(haystack))
        ELSE SubSeq(haystack, cursor, MinOf(hits) - 1)
                \o ReplaceFrom(haystack, needle, MinOf(hits) + Len(needle))

replace_case_insensitive(haystack, needle) ==
    IF needle = <<>> THEN haystack ELSE ReplaceFrom(haystack, needle, 1)

RECURSIVE ReplaceVariants(_, _)
ReplaceVariants(value, variants) ==
    IF variants = <<>> THEN value
    ELSE ReplaceVariants(replace_case_insensitive(value, Head(variants)), Tail(variants))

RECURSIVE apply_exclusions(_, _)
apply_exclusions(value, exclusions) ==
    IF exclusions = <<>> THEN value
    ELSE LET term == TrimMatches(Head(exclusions), Whitespace)
         IN  apply_exclusions(IF term = <<>> THEN value
                              ELSE ReplaceVariants(value, build_exclusion_variants(term)),
                              Tail(exclusions))

cleanup_filename_untrimmed(value) ==
    LET idx == SelectSeq(Indices(value),
                         LAMBDA i : ~(value[i] \in {"_", "-", " "} /\ i > 1
                                       /\ value[i - 1] = value[i]))
    IN  [k \in 1..Len(idx) |-> value[idx[k]]]

\* cleanup_filename: a repeated separator is written once, and separators and dots
\* are trimmed from both ends
cleanup_filename(value) ==
    LET idx == SelectSeq(Indices(value),
                         LAMBDA i : ~(value[i] \in {"_", "-", " "} /\ i > 1
                                       /\ value[i - 1] = value[i]))
        out == [k \in 1..Len(idx) |-> value[idx[k]]]
    IN  TrimMatches(out, {"_", "-", " ", "."})

WindowsReservedNames ==
    {<<"C", "O", "N">>, <<"P", "R", "N">>, <<"A", "U", "X">>, <<"N", "U", "L">>,
     <<"C", "O", "M", "1">>, <<"C", "O", "M", "2">>, <<"C", "O", "M", "3">>,
     <<"C", "O", "M", "4">>, <<"C", "O", "M", "5">>, <<"C", "O", "M", "6">>,
     <<"C", "O", "M", "7">>, <<"C", "O", "M", "8">>, <<"C", "O", "M", "9">>,
     <<"L", "P", "T", "1">>, <<"L", "P", "T", "2">>, <<"L", "P", "T", "3">>,
     <<"L", "P", "T", "4">>, <<"L", "P", "T", "5">>, <<"L", "P", "T", "6">>,
     <<"L", "P", "T", "7">>, <<"L", "P", "T", "8">>, <<"L", "P", "T", "9">>}

\* the part before the first dot, in upper case, is a reserved name
is_windows_reserved(value) ==
    LET dots == {i \in 1..Len(value) : value[i] = "."}
        stem == IF dots = {} THEN value ELSE SubSeq(value, 1, MinOf(dots) - 1)
    IN  UpperName(stem) \in WindowsReservedNames

sanitize_filename(value) ==
    LET replaced == [i \in 1..Len(value) |->
                        IF value[i] \in Disallowed THEN "_" ELSE value[i]]
        trimmed == TrimMatches(TrimEndMatches(replaced, {" ", "."}), Whitespace)
        named == IF trimmed = <<>> THEN <<"u", "n", "t", "i", "t", "l", "e", "d">> ELSE trimmed
    IN  IF is_windows_reserved(named) THEN named \o <<"_", "f", "i", "l", "e">> ELSE named

\* Option<String>
NoStr == [some |-> FALSE, value |-> <<>>]

SomeStr(v) == [some |-> TRUE, value |-> v]

\* normalized_camera_make, normalized_lens_make: trimmed, and None when empty
normalized_make(make) ==
    IF make.some /\ TrimMatches(make.value, Whitespace) # <<>>
    THEN SomeStr(TrimMatches(make.value, Whitespace))
    ELSE NoStr

same_maker(camera_make, lens_make) ==
    camera_make.some /\ lens_make.some
       /\ LowerName(camera_make.value) = LowerName(lens_make.value)

normalize_literal_connector(input) ==
    [i \in 1..Len(input) |-> IF input[i] = "-" THEN "_" ELSE input[i]]

\* input.split_whitespace().collect().join("-")
normalize_token_value(input) == RunsTo(TrimMatches(input, Whitespace), Whitespace, "-")

\* format!("{:0w$}", n) for n with at most w digits
RECURSIVE Pad(_, _)
Pad(n, w) == IF w = 0 THEN <<>> ELSE Pad(n \div 10, w - 1) \o <<Digits[(n % 10) + 1]>>

format_date(d) ==
    Pad(d.year, 4) \o Pad(d.month, 2) \o Pad(d.day, 2) \o Pad(d.hour, 2)
       \o Pad(d.minute, 2) \o Pad(d.second, 2)

\* the value of one token
TokenValue(token, metadata, same) ==
    CASE token = "Date" -> format_date(metadata.date)
      [] token = "Year" -> Pad(metadata.date.year, 4)
      [] token = "Month" -> Pad(metadata.date.month, 2)
      [] token = "Day" -> Pad(metadata.date.day, 2)
      [] token = "Hour" -> Pad(metadata.date.hour, 2)
      [] token = "Minute" -> Pad(metadata.date.minute, 2)
      [] token = "Second" -> Pad(metadata.date.second, 2)
      [] token = "CameraMake" -> normalized_make(metadata.camera_make).value
      [] token = "CameraModel" -> TrimMatches(metadata.camera_model.value, Whitespace)
      [] token = "LensMake" -> IF same THEN <<>>
                               ELSE normalized_make(metadata.lens_make).value
      [] token = "LensModel" -> TrimMatches(metadata.lens_model.value, Whitespace)
      [] token = "FilmSim" -> TrimMatches(metadata.film_sim.value, Whitespace)
      [] token = "OrigName" -> metadata.original_name

RECURSIVE RenderParts(_, _, _)
RenderParts(parts, metadata, same) ==
    IF parts = <<>> THEN <<>>
    ELSE (IF Head(parts).part = "Literal"
          THEN normalize_literal_connector(Head(parts).text)
          ELSE normalize_token_value(TokenValue(Head(parts).text[1], metadata, same)))
         \o RenderParts(Tail(parts), metadata, same)

render_template_with_options(parts, metadata, dedupe_same_maker) ==
    RenderParts(parts, metadata,
                same_maker(normalized_make(metadata.camera_make),
                           normalized_make(metadata.lens_make)) /\ dedupe_same_maker)

\* the strings of the explored renderings
S_FUJIFILM == <<"F", "U", "J", "I", "F", "I", "L", "M">>
S_FUJIFILM_PADDED == <<" ", "F", "U", "J", "I", "F", "I", "L", "M", " ">>
S_FUJI_FILM == <<"F", "u", "j", "i", " ", " ", "F", "i", "l", "m">>
S_LOWER_FUJIFILM == <<"f", "u", "j", "i", "f", "i", "l", "m">>
S_IMG == <<"I", "M", "G">>
S_CON == <<"c", "o", "n">>
S_A_B == <<"A", "_", "_", "B">>
EXT_UPPER_JPG == <<".", "J", "P", "G">>

\* parse_template("{camera_maker}_{orig_name}")
PartsMakerName == <<TokenPart("CameraMake"), Literal(<<"_">>), TokenPart("OrigName")>>

\* parse_template("{orig_name}")
PartsName == <<TokenPart("OrigName")>>

\* parse_template("{camera_maker}-{lens_maker} {year}_{orig_name}")
PartsMakers ==
    <<TokenPart("CameraMake"), Literal(<<"-">>), TokenPart("LensMake"),
      Literal(<<" ">>), TokenPart("Year"), Literal(<<"_">>), TokenPart("OrigName")>>

RenderParts3 == {PartsMakerName, PartsName, PartsMakers}

RenderExclusions ==
    {<<>>, <<S_FUJIFILM>>, <<S_FUJI_FILM>>, <<S_LOWER_FUJIFILM, <<" ">>>>, <<S_IMG>>}

\* PlanOptions::default().max_filename_len, and limits that bite
DefaultMaxFilenameLen == 240

RenderLimits == {Len(EXT_UPPER_JPG) + 2, Len(EXT_UPPER_JPG) + Len(S_CON), DefaultMaxFilenameLen}

RenderDate == [year |-> 2026, month |-> 2, day |-> 8, hour |-> 10, minute |-> 20,
               second |-> 30]

RenderMetadata(camera_make, lens_make, original_name) ==
    [date |-> RenderDate, camera_make |-> camera_make, camera_model |-> NoStr,
     lens_make |-> lens_make, lens_model |-> NoStr, film_sim |-> NoStr,
     original_name |-> original_name]

InitRender ==
    /\ \E camera_make \in {NoStr, SomeStr(S_FUJIFILM), SomeStr(S_FUJIFILM_PADDED),
                           SomeStr(S_FUJI_FILM)},
          lens_make \in {NoStr, SomeStr(S_LOWER_FUJIFILM)},
          original_name \in {S_IMG, S_CON, S_A_B},
          parts \in RenderParts3 :
          loc = [metadata |-> RenderMetadata(camera_make, lens_make, original_name),
                 parts |-> parts, extension |-> EXT_UPPER_JPG, value |-> <<>>]
    /\ \E dedupe_same_maker \in BOOLEAN, exclusions \in RenderExclusions,
          max_filename_len \in RenderLimits :
          opts = [dedupe_same_maker |-> dedupe_same_maker, exclusions |-> exclusions,
                  max_filename_len |-> max_filename_len]
    /\ pc = "render"
    /\ phase = "preparing"
    /\ fs = <<>>
    /\ dirs = {}
    /\ links = <<>>
    /\ journal = <<>>
    /\ plan = <<>>
    /\ result = NoResult
    /\ oplog = <<>>
    /\ faults = 0
    /\ pre = <<>>
    /\ aresult = NoResult

RenderUnchanged ==
    UNCHANGED <<fs, dirs, links, journal, phase, plan, opts, faults, pre, aresult>>

\* one stage of the pipeline of prepare_candidate: the value goes through f, and the
\* stage's output is kept in oplog
RenderStage(at, value, next) ==
    /\ pc = at
    /\ loc' = [loc EXCEPT !.value = value]
    /\ oplog' = Append(oplog, value)
    /\ pc' = next
    /\ result' = result
    /\ RenderUnchanged

RenderTemplate ==
    RenderStage("render",
                render_template_with_options(loc.parts, loc.metadata,
                                             opts.dedupe_same_maker),
                "exclusions")

ApplyExclusions ==
    RenderStage("exclusions", apply_exclusions(loc.value, opts.exclusions), "spaces")

NormalizeSpaces ==
    RenderStage("spaces", normalize_spaces_to_underscore(loc.value), "cleanup")

CleanupFilename == RenderStage("cleanup", cleanup_filename(loc.value), "sanitize")

SanitizeFilename == RenderStage("sanitize", sanitize_filename(loc.value), "truncate")

\* the rendered base of the prepared candidate
TruncateFilename ==
    /\ pc = "truncate"
    /\ LET rendered_base == truncate_filename_if_needed(loc.value, loc.extension,
                                                        opts.max_filename_len)
       IN  /\ loc' = [loc EXCEPT !.value = rendered_base]
           /\ oplog' = Append(oplog, rendered_base)
           /\ result' = [call |-> "prepare_candidate", ok |-> TRUE,
                         rendered_base |-> rendered_base,
                         extension |-> loc.extension]
    /\ pc' = "rendered"
    /\ RenderUnchanged

NextRender ==
    \/ RenderTemplate
    \/ ApplyExclusions
    \/ NormalizeSpaces
    \/ CleanupFilename
    \/ SanitizeFilename
    \/ TruncateFilename

SpecRender == InitRender /\ [][NextRender]_vars

(************************ plan generation: explicit file list **************)
\* the longest explicit file list explored
MaxExplicit == 3

\* components of the explored paths: two drive prefixes, the root, folder names
N_DRIVE_C == <<"C", ":">>
N_DRIVE_D == <<"D", ":">>
N_ROOT == <<"/">>
N_P == <<"p">>
N_Q == <<"q">>
N_L == <<"l">>
N_R == <<"r">>
N_M_JPG == <<"m", ".", "j", "p", "g">>

DIR_P == <<N_DRIVE_C, N_ROOT, N_P>>
DIR_PQ == <<N_DRIVE_C, N_ROOT, N_P, N_Q>>
DIR_L == <<N_DRIVE_C, N_ROOT, N_L>>
DIR_R == <<N_DRIVE_D, N_ROOT, N_R>>

\* C:/l is a link to C:/p/q
ExplicitLinks == (DIR_L :> DIR_PQ)

\* fs::canonicalize of a folder
CanonicalizeDir(d) == IF d \in DOMAIN ExplicitLinks THEN ExplicitLinks[d] ELSE d

\* the paths a caller may select, and what is found there
ExplicitWorld ==
    (Append(DIR_P, N_A_JPG) :> "file") @@ (Append(DIR_PQ, N_B_JPEG) :> "file")
      @@ (Append(DIR_L, N_B_JPEG) :> "file") @@ (Append(DIR_R, N_A_JPG) :> "file")
      @@ (Append(DIR_P, N_C_TXT) :> "file") @@ (Append(DIR_P, N_M_JPG) :> "missing")
      @@ (Append(DIR_PQ, N_D_JPG) :> "dir")

ExplicitLists == SeqsUpTo(DOMAIN ExplicitWorld, MaxExplicit)

\* Path::parent
ParentOf(path) == SubSeq(path, 1, Len(path) - 1)

\* the first occurrence of every path, in order
RECURSIVE Unique(_)
Unique(s) ==
    IF s = <<>> THEN <<>>
    ELSE LET front == Unique(SubSeq(s, 1, Len(s) - 1))
         IN  IF s[Len(s)] \in SeqToSet(front) THEN front ELSE Append(front, s[Len(s)])

\* the number of leading components two paths share
Matched(a, b, max) ==
    LET diff == {i \in 1..max : a[i] # b[i]}
    IN  IF diff = {} THEN max ELSE MinOf(diff) - 1

\* the loop of common_ancestor_path: <<found, prefix_len>>
RECURSIVE AncestorLoop(_, _, _, _)
AncestorLoop(first, paths, i, prefix_len) ==
    IF i > Len(paths) THEN <<TRUE, prefix_len>>
    ELSE LET max == IF prefix_len < Len(paths[i]) THEN prefix_len ELSE Len(paths[i])
             matched == Matched(first, paths[i], max)
         IN  IF matched = 0 THEN <<FALSE, 0>>
             ELSE AncestorLoop(first, paths, i + 1, matched)

common_ancestor_of_first(paths) ==
    IF paths = <<>> THEN [some |-> FALSE, path |-> <<>>]
    ELSE [some |-> TRUE, path |-> paths[1]]

\* common_ancestor_path: Option<PathBuf>
common_ancestor_path(paths) ==
    IF paths = <<>> THEN [some |-> FALSE, path |-> <<>>]
    ELSE LET r == AncestorLoop(paths[1], paths, 2, Len(paths[1]))
         IN  IF r[1] THEN [some |-> TRUE, path |-> SubSeq(paths[1], 1, r[2])]
             ELSE [some |-> FALSE, path |-> <<>>]

ExplicitErr(kind) == [call |-> "generate_plan_for_jpg_files", ok |-> FALSE, kind |-> kind]

ExplicitOk == [call |-> "generate_plan_for_jpg_files", ok |-> TRUE, kind |-> "none"]

NoResolved == [jpg_root |-> <<>>, jpg_roots |-> <<>>, jpg_files |-> <<>>,
               stats |-> NoStats]

InitExplicit ==
    /\ \E jpg_files \in ExplicitLists :
          loc = [jpg_files |-> jpg_files, unique_files |-> <<>>, idx |-> 1,
                 resolved_root_canonicals |-> <<>>, resolved_files |-> <<>>,
                 resolved_jpg_roots |-> <<>>, stats |-> NoStats]
    /\ fs = ExplicitWorld
    /\ links = ExplicitLinks
    /\ dirs = {DIR_P, DIR_PQ, DIR_R}
    /\ plan = NoResolved
    /\ opts = <<>>
    /\ pc = "explicit_start"
    /\ phase = "generating"
    /\ journal = <<>>
    /\ result = NoResult
    /\ oplog = <<>>
    /\ faults = 0
    /\ pre = <<>>
    /\ aresult = NoResult

ExplicitUnchanged ==
    UNCHANGED <<fs, dirs, links, journal, phase, opts, oplog, faults, pre, aresult>>

\* an empty list is rejected; otherwise repeated paths are dropped
ExplicitStart ==
    /\ pc = "explicit_start"
    /\ IF loc.jpg_files = <<>>
       THEN /\ result' = ExplicitErr("no_files")
            /\ pc' = "explicit_done"
            /\ loc' = loc
       ELSE /\ result' = result
            /\ pc' = "explicit_loop"
            /\ loc' = [loc EXCEPT !.unique_files = Unique(loc.jpg_files)]
    /\ plan' = plan
    /\ ExplicitUnchanged

\* one turn of the loop over unique_files
ExplicitFile ==
    /\ pc = "explicit_loop"
    /\ loc.idx <= Len(loc.unique_files)
    /\ LET jpg_file == loc.unique_files[loc.idx]
           parent == ParentOf(jpg_file)
           parent_canonical == CanonicalizeDir(parent)
           seen == parent_canonical \in SeqToSet(loc.resolved_root_canonicals)
       IN  CASE fs[jpg_file] = "missing" ->
                   /\ result' = ExplicitErr("jpg_missing")
                   /\ pc' = "explicit_done"
                   /\ loc' = loc
             [] fs[jpg_file] # "missing" /\ fs[jpg_file] # "file" ->
                   /\ result' = ExplicitErr("not_file")
                   /\ pc' = "explicit_done"
                   /\ loc' = loc
             [] fs[jpg_file] = "file" /\ ~is_jpg(LastName(jpg_file)) ->
                   /\ result' = ExplicitErr("not_jpg")
                   /\ pc' = "explicit_done"
                   /\ loc' = loc
             [] OTHER ->
                   /\ result' = result
                   /\ pc' = pc
                   /\ loc' = [loc EXCEPT
                         !.resolved_root_canonicals =
                            IF seen THEN @ ELSE Append(@, parent_canonical),
                         !.resolved_jpg_roots = IF seen THEN @ ELSE Append(@, parent),
                         !.stats.scanned_files = @ + 1,
                         !.stats.jpg_files = @ + 1,
                         !.resolved_files = Append(@, jpg_file),
                         !.idx = @ + 1]
    /\ plan' = plan
    /\ ExplicitUnchanged

\* after the loop: both lists are sorted and the common ancestor is the nominal root
ExplicitFinish ==
    /\ pc = "explicit_loop"
    /\ loc.idx > Len(loc.unique_files)
    /\ LET jpg_root == common_ancestor_path(loc.resolved_root_canonicals)
       IN  IF jpg_root.some
           THEN /\ plan' = [jpg_root |-> jpg_root.path,
                            jpg_roots |-> SortPaths(SeqToSet(loc.resolved_jpg_roots)),
                            jpg_files |-> SortPaths(SeqToSet(loc.resolved_files)),
                            stats |-> loc.stats]
                /\ result' = ExplicitOk
           ELSE /\ plan' = plan
                /\ result' = ExplicitErr("no_common_root")
    /\ pc' = "explicit_done"
    /\ loc' = loc
    /\ ExplicitUnchanged

NextExplicit ==
    \/ ExplicitStart
    \/ ExplicitFile
    \/ ExplicitFinish

SpecExplicit == InitExplicit /\ [][NextExplicit]_vars

(************************ planner: parallel preparation ********************)
\* the name rendered for a file whose metadata comes from its RAW companion
RAW_STEM == <<"a", "b">>

\* what the worker pool shares: the length limit and the index of RAW companions,
\* built before the workers start
PrepareContext(limit, index) == [max_filename_len |-> limit, raw_match_indexes |-> index]

\* prepare_candidate: metadata through the index, rendering, length bound
prepare_candidate(context, input) ==
    LET ext == extension(input.jpg_path.file)
        sanitized == IF input.jpg_path \in context.raw_match_indexes THEN RAW_STEM
                     ELSE input.sanitized
    IN  [original_path |-> input.jpg_path,
         rendered_base |-> truncate_filename_if_needed(sanitized, ext,
                                                       context.max_filename_len),
         extension |-> ext]

\* the results in the order in which the workers finished
collected_as_finished(slots, done) == [k \in 1..Len(done) |-> slots[done[k]]]

\* par_iter().map().collect(): the results in the order of the inputs
collected_in_order(slots, done) == [i \in 1..Len(slots) |-> slots[i]]

InitPar ==
    /\ \E files \in JpgFileLists, limit \in MaxFilenameLens :
          /\ files # <<>>
          /\ \E S \in SUBSET PlanOrigPaths :
                /\ \A i \in 1..Len(files) : files[i].jpg_path \in S
                /\ fs = [q \in S |-> 1]
          /\ \E index \in SUBSET {files[i].jpg_path : i \in 1..Len(files)} :
                opts = PrepareContext(limit, index)
          /\ loc = [slots |-> [i \in 1..Len(files) |-> <<>>],
                    pending |-> 1..Len(files), done |-> <<>>] @@ PlanLoc(files, limit)
    /\ pc = "prepare_par"
    /\ dirs = {D1, D2}
    /\ links = <<>>
    /\ journal = <<>>
    /\ phase = "planning"
    /\ plan = [jpg_root |-> D1, jpg_roots |-> <<>>, candidates |-> <<>>,
               stats |-> [planned |-> 0, unchanged |-> 0]]
    /\ result = NoResult
    /\ oplog = <<>>
    /\ faults = 0
    /\ pre = Snapshot(fs, dirs, journal)
    /\ aresult = NoResult

\* one worker finishes one input; the workers finish in any order
PrepareWorker ==
    /\ pc = "prepare_par"
    /\ \E i \in loc.pending :
          loc' = [loc EXCEPT !.slots[i] = prepare_candidate(opts, loc.jpg_files[i]),
                             !.pending = @ \ {i},
                             !.done = Append(@, i)]
    /\ UNCHANGED <<fs, dirs, links, journal, pc, phase, plan, opts, result, oplog, faults,
                   pre, aresult>>

\* all workers are done: the results are collected and handed to the sequential loop
CollectPrepared ==
    /\ pc = "prepare_par"
    /\ loc.pending = {}
    /\ loc' = [loc EXCEPT !.prepared = collected_in_order(loc.slots, loc.done)]
    /\ pc' = "resolve"
    /\ UNCHANGED <<fs, dirs, links, journal, phase, plan, opts, result, oplog, faults,
                   pre, aresult>>

NextPar ==
    \/ PrepareWorker
    \/ CollectPrepared
    \/ ResolveCollision
    \/ ResolveSuffix
    \/ PlanReturn

SpecPar == InitPar /\ [][NextPar]_vars

(************************ exif_reader: the shared ExifTool handle **********)
\* the preparation workers explored, and the reads each of them makes
MaxWorkers == 3
MaxReads == 2

Workers == 1..MaxWorkers

\* Mutex::lock that never waits
lock_never_waits(holder) == TRUE

\* Mutex::lock: granted when no guard is alive
lock_granted(holder) == holder = 0

InitExif ==
    /\ fs = [once |-> "uninit", created |-> 0, holder |-> 0, poisoned |-> FALSE]
    /\ \E installed \in BOOLEAN : opts = [exiftool_installed |-> installed]
    /\ loc = [wpc |-> [w \in Workers |-> "idle"], reads |-> [w \in Workers |-> 0]]
    /\ pc = "prepare_par"
    /\ phase = "exif"
    /\ plan = <<>>
    /\ dirs = {}
    /\ links = <<>>
    /\ journal = <<>>
    /\ result = NoResult
    /\ oplog = <<>>
    /\ faults = 0
    /\ pre = <<>>
    /\ aresult = NoResult

ExifUnchanged ==
    UNCHANGED <<dirs, links, journal, pc, phase, plan, opts, result, faults, pre, aresult>>

\* a worker enters read_exif_metadata_with_exiftool for its next file
ExifEnter(w) ==
    /\ phase = "exif"
    /\ loc.wpc[w] = "idle"
    /\ loc.reads[w] < MaxReads
    /\ loc' = [loc EXCEPT !.wpc[w] = "instance", !.reads[w] = @ + 1]
    /\ UNCHANGED <<fs, oplog>>
    /\ ExifUnchanged

\* exiftool_instance: OnceLock::get_or_init; the first caller runs init_exiftool, a
\* caller that arrives while it runs waits, later callers read the stored value
ExifInstance(w) ==
    /\ phase = "exif"
    /\ loc.wpc[w] = "instance"
    /\ fs.once # "running"
    /\ CASE fs.once = "uninit" ->
               /\ fs' = [fs EXCEPT !.once = "running"]
               /\ loc' = [loc EXCEPT !.wpc[w] = "init"]
         [] fs.once = "some" ->
               /\ fs' = fs
               /\ loc' = [loc EXCEPT !.wpc[w] = "lock"]
         [] OTHER ->
               /\ fs' = fs
               /\ loc' = [loc EXCEPT !.wpc[w] = "idle"]
    /\ oplog' = oplog
    /\ ExifUnchanged

\* init_exiftool: a handle when the tool can be started, else None; the value is stored
ExifInit(w) ==
    /\ phase = "exif"
    /\ loc.wpc[w] = "init"
    /\ IF opts.exiftool_installed
       THEN /\ fs' = [fs EXCEPT !.once = "some", !.created = @ + 1]
            /\ loc' = [loc EXCEPT !.wpc[w] = "lock"]
       ELSE /\ fs' = [fs EXCEPT !.once = "none"]
            /\ loc' = [loc EXCEPT !.wpc[w] = "idle"]
    /\ oplog' = oplog
    /\ ExifUnchanged

\* exiftool_mutex.lock(): waits for the guard; a poisoned mutex gives an error and the
\* guard inside the error is dropped at once
ExifLock(w) ==
    /\ phase = "exif"
    /\ loc.wpc[w] = "lock"
    /\ lock_granted(fs.holder)
    /\ IF fs.poisoned
       THEN /\ fs' = fs
            /\ loc' = [loc EXCEPT !.wpc[w] = "idle"]
            /\ oplog' = oplog
       ELSE /\ fs' = [fs EXCEPT !.holder = w]
            /\ loc' = [loc EXCEPT !.wpc[w] = "json"]
            /\ oplog' = oplog
    /\ ExifUnchanged

\* exiftool.json(path, &args) returns: with the tags, with an error (the function
\* returns and drops the guard), or by a panic (the guard is dropped, the mutex poisoned)
ExifJson(w) ==
    /\ phase = "exif"
    /\ loc.wpc[w] = "json"
    /\ \/ /\ loc' = [loc EXCEPT !.wpc[w] = "build"]
          /\ fs' = fs
       \/ /\ loc' = [loc EXCEPT !.wpc[w] = "idle"]
          /\ fs' = [fs EXCEPT !.holder = IF @ = w THEN 0 ELSE @]
       \/ /\ loc' = [loc EXCEPT !.wpc[w] = "dead"]
          /\ fs' = [fs EXCEPT !.holder = IF @ = w THEN 0 ELSE @, !.poisoned = TRUE]
    /\ oplog' = oplog
    /\ ExifUnchanged

\* the metadata is built and the function returns: the guard is dropped
ExifReturn(w) ==
    /\ phase = "exif"
    /\ loc.wpc[w] = "build"
    /\ loc' = [loc EXCEPT !.wpc[w] = "idle"]
    /\ fs' = [fs EXCEPT !.holder = IF @ = w THEN 0 ELSE @]
    /\ oplog' = oplog
    /\ ExifUnchanged

ExifEnterAny == \E w \in Workers : ExifEnter(w)

ExifInstanceAny == \E w \in Workers : ExifInstance(w)

ExifInitAny == \E w \in Workers : ExifInit(w)

ExifLockAny == \E w \in Workers : ExifLock(w)

ExifJsonAny == \E w \in Workers : ExifJson(w)

ExifReturnAny == \E w \in Workers : ExifReturn(w)

NextExif ==
    \/ ExifEnterAny
    \/ ExifInstanceAny
    \/ ExifInitAny
    \/ ExifLockAny
    \/ ExifJsonAny
    \/ ExifReturnAny

SpecExif == InitExif /\ [][NextExif]_vars

(************************ apply: the surfaced error ************************)
\* what the message of an error returned by apply says, as the set of its statements:
\* the failed step, and the contexts added on the way out
error_contexts(r) ==
    CASE r.kind = "stage" \/ r.kind = "commit" ->
            {r.kind} \cup (IF r.rollback = "failed" THEN {"rollback_failed"} ELSE {})
      [] r.kind = "persist" ->
            {r.kind}
               \cup (IF r.rollback = "failed" THEN {"rollback_failed"} ELSE {"rolled_back"})
               \cup (IF r.cleanup = "failed" THEN {"cleanup_failed"} ELSE {})
      [] OTHER -> {r.kind}

(************************ properties ***************************************)
Changed == SelectChanged(plan.candidates)

AfterApply == pc = "idle" /\ result.call = "apply"

\* the contents of the batch: what the changed originals held when apply started
BatchContent ==
    {pre.fs[Resolve(Changed[i].original_path)] :
        i \in {k \in 1..Len(Changed) : Resolve(Changed[k].original_path) \in DOMAIN pre.fs}}

OriginalsRestored ==
    \A i \in 1..Len(Changed) :
        /\ Exists(Changed[i].original_path)
        /\ fs[Resolve(Changed[i].original_path)] = pre.fs[Resolve(Changed[i].original_path)]

NoTempLeft == \A q \in DOMAIN fs : q.name # TMP

OpsOf(kind) == SelectSeq(oplog, LAMBDA o : o.op = kind)

\* the only failure of the call was the commit rename of one candidate
CommitFailedAlone == AfterApply /\ result.kind = "commit" /\ faults = 1

\* C1 (as stated): when the N-th commit rename fails and every other rename succeeds,
\* apply returns an error, every original is back at its path with its content, no
\* batch file is at any target path and no temp file remains.
C1_CommitFailureLeavesNoTarget ==
    CommitFailedAlone =>
        /\ ~result.ok
        /\ OriginalsRestored
        /\ \A i \in 1..Len(Changed) :
              ~(Exists(Changed[i].target_path)
                /\ fs[Resolve(Changed[i].target_path)] \in BatchContent)
        /\ NoTempLeft

\* C1 (amended): as above, except that a batch file may sit at a target path that is
\* its own original path (a target that names an original of the batch).
C1_CommitFailureRestoresBatch ==
    CommitFailedAlone =>
        /\ ~result.ok
        /\ result.rollback = "ok"
        /\ OriginalsRestored
        /\ \A i \in 1..Len(Changed) :
              (Exists(Changed[i].target_path)
                /\ fs[Resolve(Changed[i].target_path)] \in BatchContent)
              => \E j \in 1..Len(Changed) :
                    /\ Resolve(Changed[j].original_path) = Resolve(Changed[i].target_path)
                    /\ fs[Resolve(Changed[i].target_path)]
                          = pre.fs[Resolve(Changed[j].original_path)]
        /\ NoTempLeft

\* C1 witness: two candidates, the first committed, the second commit failed, rolled back
C1_Witness ==
    /\ CommitFailedAlone
    /\ Len(Changed) = 2
    /\ Len(OpsOf("commit")) = 1
    /\ Len(OpsOf("uncommit")) = 1

AfterUndo == pc = "idle" /\ result.call = "undo"

\* the contents the changed originals held when the apply call before this undo began
\* are where they were: they survive at their original paths
UndoRestoredOriginals ==
    \A i \in 1..Len(Changed) :
        /\ Exists(Changed[i].original_path)
        /\ fs[Resolve(Changed[i].original_path)] = InitFiles[Resolve(Changed[i].original_path)]

\* C2 (as stated): for every plan that passes validation, a successful apply with backups
\* disabled followed immediately by undo_last puts every original path back to the
\* content it held before apply, leaves no temp file and deletes the journal.
C2_ApplyThenUndoRestores ==
    (AfterUndo /\ result.ok /\ aresult.call = "apply" /\ aresult.ok
        /\ ~opts.backup_originals /\ Changed # <<>>) =>
        /\ UndoRestoredOriginals
        /\ NoTempLeft
        /\ journal = <<>>

\* C3: when the k-th staging rename fails (nothing else fails), the k-1 staged files
\* are renamed back in reverse staging order, apply returns an error, no temp file is
\* left, no target was created and the journal is as it was.
C3_StageFailureRollsBack ==
    (AfterApply /\ result.kind = "stage" /\ faults = 1) =>
        LET st == OpsOf("stage")
            un == OpsOf("unstage")
        IN /\ ~result.ok
           /\ result.rollback = "ok"
           /\ Len(un) = Len(st)
           /\ \A i \in 1..Len(un) :
                 /\ un[i].from = st[Len(st) + 1 - i].to
                 /\ un[i].to = st[Len(st) + 1 - i].from
           /\ \A i \in 1..Len(st) : st[i].from = Changed[i].original_path
           /\ NoTempLeft
           /\ OpsOf("commit") = <<>>
           /\ \A q \in DOMAIN fs \cup DOMAIN pre.fs :
                 q.dir \in {JPG, OUT} =>
                    q \in DOMAIN fs /\ q \in DOMAIN pre.fs /\ fs[q] = pre.fs[q]
           /\ journal = pre.journal

\* C3 witness: the second staging rename failed after the first file was staged
C3_Witness ==
    /\ AfterApply /\ result.kind = "stage" /\ faults = 1
    /\ Len(OpsOf("stage")) = 1
    /\ Len(OpsOf("unstage")) = 1

\* the backup files this call created are gone, and so is every empty backup folder
BackupsDiscarded ==
    /\ \A i \in 1..Len(OpsOf("backup")) : ~Exists(OpsOf("backup")[i].to)
    /\ \A k \in 1..Len(plan_jpg_roots(plan)) :
          LET b == CanonDir(BackupRoot(plan_jpg_roots(plan)[k]))
          IN b \in dirs => ~directory_is_empty(dirs, fs, b)

\* the journal write failed after a full commit, and nothing else failed
PersistFailedAlone ==
    /\ AfterApply /\ result.kind = "persist"
    /\ result.rollback = "ok" /\ result.cleanup = "ok"

\* C4 (as stated): when the journal write fails after every rename was committed, apply
\* renames every committed target back and deletes the backups it created (and the empty
\* backup folder), so every original is at its original path and no batch file is left
\* at a target that is not an original.
C4_PersistFailureRestoresAll ==
    PersistFailedAlone =>
        /\ ~result.ok
        /\ OriginalsRestored
        /\ \A i \in 1..Len(Changed) :
              (Exists(Changed[i].target_path)
                /\ fs[Resolve(Changed[i].target_path)] \in BatchContent)
              => \E j \in 1..Len(Changed) :
                    Resolve(Changed[j].original_path) = Resolve(Changed[i].target_path)
        /\ BackupsDiscarded

\* a directory that canonicalizes outside every declared root of the plan
OutsideRoots(d) ==
    \A k \in 1..Len(plan_jpg_roots(plan)) :
        ~IsPrefix(CanonDir(plan_jpg_roots(plan)[k]), CanonDir(d))

HasOutsideCandidate ==
    \E i \in 1..Len(Changed) :
        \/ OutsideRoots(Changed[i].original_path.dir)
        \/ OutsideRoots(Changed[i].target_path.dir)

\* the call was refused and has changed nothing
RejectedUntouched ==
    /\ pc = "idle"
    /\ result.call = "apply"
    /\ ~result.ok
    /\ oplog = <<>>
    /\ fs = pre.fs
    /\ dirs = pre.dirs
    /\ journal = pre.journal

\* C5: a plan with a changed candidate whose original, or whose target's parent,
\* canonicalizes outside every declared root is rejected before any rename, backup
\* copy or journal write.
C5_OutsideRootRejected ==
    (phase = "applied" /\ HasOutsideCandidate) => RejectedUntouched

\* C5 witness: a target under jpg/lnk, which is inside jpg by name and outside once
\* canonicalized, was refused
C5_Witness ==
    /\ phase = "applied"
    /\ Len(Changed) = 1
    /\ Changed[1].original_path = P(JPG, "a")
    /\ Changed[1].target_path = P(LNK, "c")
    /\ plan.jpg_roots = <<>>
    /\ RejectedUntouched

HasDuplicate ==
    \E i, j \in 1..Len(Changed) :
        /\ i < j
        /\ \/ Resolve(Changed[i].original_path) = Resolve(Changed[j].original_path)
           \/ Resolve(Changed[i].target_path) = Resolve(Changed[j].target_path)

\* C6: a plan in which two changed candidates share the canonical original path or the
\* parent-normalized target path is rejected before any mutation.
C6_DuplicateRejected ==
    (phase = "applied" /\ HasDuplicate) => RejectedUntouched

\* C6 witness: two existing originals inside the root with one target, refused
C6_Witness ==
    /\ phase = "applied"
    /\ Len(Changed) = 2
    /\ Changed[1].original_path = P(JPG, "a")
    /\ Changed[2].original_path = P(JPG, "b")
    /\ Changed[1].target_path = P(JPG, "c")
    /\ Changed[2].target_path = P(JPG, "c")
    /\ RejectedUntouched

\* C7: a plan whose candidates are all unchanged is applied with zero mutations and
\* returns applied = 0, unchanged = number of candidates; and whatever the plan, apply
\* stages and backs up only the original paths of changed candidates.
C7_UnchangedUntouched ==
    phase = "applied" =>
        /\ Changed = <<>> =>
              /\ pc = "idle"
              /\ result = ApplyOk(0, Len(plan.candidates))
              /\ oplog = <<>>
              /\ fs = pre.fs
              /\ dirs = pre.dirs
              /\ journal = pre.journal
        /\ \A k \in 1..Len(oplog) :
              oplog[k].op \in {"stage", "backup"} =>
                 \E i \in 1..Len(plan.candidates) :
                    /\ plan.candidates[i].changed
                    /\ plan.candidates[i].original_path = oplog[k].from

\* C7 witness: two unchanged candidates and an earlier journal, applied
C7_Witness ==
    /\ phase = "applied"
    /\ Len(plan.candidates) = 2
    /\ Changed = <<>>
    /\ journal = <<OldLog>>
    /\ result = ApplyOk(0, 2)

(************************ planner properties *******************************)
PlanProduced == pc = "planned"

TargetsDistinct ==
    \A i, j \in 1..Len(plan.candidates) :
        i # j => plan.candidates[i].target_path # plan.candidates[j].target_path

TargetsOwnOrNew ==
    \A i \in 1..Len(plan.candidates) :
        \/ plan.candidates[i].target_path = plan.candidates[i].original_path
        \/ plan.candidates[i].target_path \notin DOMAIN fs

ExtOf(i) == extension(plan.candidates[i].original_path.file)

SameDirSameBase(i, j) ==
    /\ plan.candidates[i].original_path.dir = plan.candidates[j].original_path.dir
    /\ plan.candidates[i].rendered_base = plan.candidates[j].rendered_base

\* one of the two has the rendered name, the other the rendered name with _001
NameAnd001(i, j) ==
    LET name == plan.candidates[i].rendered_base
        plain(k) == plan.candidates[k].target_path.file = name \o ExtOf(k)
        first(k) == plan.candidates[k].target_path.file = name \o Suffix(1) \o ExtOf(k)
    IN (plain(i) /\ first(j)) \/ (plain(j) /\ first(i))

PairUnhindered(i, j) ==
    LET d == plan.candidates[i].original_path.dir
        plain == PJoin(d, plan.candidates[i].rendered_base \o ExtOf(i))
        first == PJoin(d, plan.candidates[i].rendered_base \o Suffix(1) \o ExtOf(i))
    IN /\ first \notin DOMAIN fs
       /\ plain \in DOMAIN fs =>
             plain \in {plan.candidates[i].original_path, plan.candidates[j].original_path}
       /\ \A k \in 1..Len(plan.candidates) \ {i, j} :
             plan.candidates[k].target_path \notin {plain, first}

UndoCalled == phase = "undone" /\ pre.journal # <<>>

RecordedLog == pre.journal[1]

RecordedRawRoots ==
    IF RecordedLog.jpg_roots # <<>> THEN RecordedLog.jpg_roots ELSE RecordedLog.jpg_root

\* the parent directory d canonicalizes under none of the directories rs
OutsideAll(d, rs) == \A k \in 1..Len(rs) : ~IsPrefix(CanonDir(rs[k]), CanonDir(d))

HasOutsideOperation ==
    \E i \in 1..Len(RecordedLog.operations) :
        \/ OutsideAll(RecordedLog.operations[i].from.dir, RecordedRawRoots)
        \/ OutsideAll(RecordedLog.operations[i].to.dir, RecordedRawRoots)

\* a recorded backup path that is a file and lies under no root's backup folder
HasOutsideBackup ==
    \E i \in 1..Len(RecordedLog.backup_paths) :
        /\ Resolve(RecordedLog.backup_paths[i]) \in DOMAIN pre.fs
        /\ \A k \in 1..Len(RecordedRawRoots) :
              ~IsPrefix(Append(CanonDir(RecordedRawRoots[k]), "backup"),
                        CanonDir(RecordedLog.backup_paths[i].dir))

\* undo_last returned an error and has changed nothing
UndoRejectedUntouched ==
    /\ pc = "idle"
    /\ result.call = "undo"
    /\ ~result.ok
    /\ oplog = <<>>
    /\ fs = pre.fs
    /\ dirs = pre.dirs
    /\ journal = pre.journal

\* C9 (as stated): undo_last rejects a journal in which an operation's from or to resolves
\* outside the recorded roots, or a recorded existing backup path resolves outside every
\* root's backup folder; on rejection no file is moved, no backup deleted, the journal kept.
C9_UntrustedJournalRejected ==
    (UndoCalled /\ (HasOutsideOperation \/ HasOutsideBackup)) => UndoRejectedUntouched

\* C9 (amended): as C9, with the recorded backup paths checked only when the journal has
\* its backup flag set.
C9_UntrustedJournalRejectedWhenFlagged ==
    (UndoCalled /\ (HasOutsideOperation \/ (RecordedLog.backup_originals /\ HasOutsideBackup)))
        => UndoRejectedUntouched

\* C9 witness: operations inside the root, the backup flag set and the recorded backup
\* out/a outside jpg/backup: refused with every file in place
C9_Witness ==
    /\ UndoCalled
    /\ ~HasOutsideOperation
    /\ Len(RecordedLog.operations) = 2
    /\ Exists(RecordedLog.operations[2].to)
    /\ RecordedLog.backup_originals
    /\ RecordedLog.backup_paths = <<P(OUT, "a")>>
    /\ result.kind = "backup_outside"
    /\ UndoRejectedUntouched

\* the journal replayed backwards from operation i down to the first, skipping an
\* operation whose `to` is not there at its turn: <<files, renames>>
RECURSIVE ReplayBack(_, _, _)
ReplayBack(f, ops, i) ==
    IF i = 0 THEN <<f, 0>>
    ELSE LET to == [ops[i].to EXCEPT !.dir = CanonDir(@)]
             from == [ops[i].from EXCEPT !.dir = CanonDir(@)]
             there == to \in DOMAIN f
             after == IF there
                      THEN [q \in (DOMAIN f \ {to}) \cup {from} |->
                                IF q = from THEN f[to] ELSE f[q]]
                      ELSE f
             rest == ReplayBack(after, ops, i - 1)
         IN <<rest[1], rest[2] + (IF there THEN 1 ELSE 0)>>

\* the position in the journal of the operation a restore rename reversed
RecordedIndex(o) ==
    {i \in 1..Len(RecordedLog.operations) :
        /\ Resolve(RecordedLog.operations[i].to) = Resolve(o.from)
        /\ Resolve(RecordedLog.operations[i].from) = Resolve(o.to)}

\* the renames of restore_operations are over and nothing else has run yet
RestoreDone ==
    /\ UndoCalled
    /\ loc.ret = "undo"
    /\ pc = "cleanup"
    /\ loc.idx = 1
    /\ OpsOf("unbackup") = <<>>

\* C10: undo renames to->from in reverse recorded order, skips an operation whose `to` is
\* not there at its turn, and reports restored = the renames performed, at most the
\* number of recorded operations.
C10_ReverseReplaySkipsMissing ==
    UndoCalled =>
        LET R == OpsOf("restore")
            replay == ReplayBack(pre.fs, RecordedLog.operations, Len(RecordedLog.operations))
        IN /\ \A k \in 1..Len(R) : RecordedIndex(R[k]) # {}
           /\ \A a, b \in 1..Len(R) :
                 a < b => \A i \in RecordedIndex(R[a]), j \in RecordedIndex(R[b]) : i > j
           /\ loc.restored = Len(R)
           /\ Len(R) <= Len(RecordedLog.operations)
           /\ RestoreDone => (fs = replay[1] /\ loc.restored = replay[2])
           /\ (AfterUndo /\ result.ok) =>
                 (result.restored = Len(R) /\ result.restored = replay[2])

\* C10 witness: two recorded operations, the later one's `to` gone: undo succeeded
\* and reports one
C10_Witness ==
    /\ UndoCalled
    /\ AfterUndo
    /\ result.ok
    /\ Len(RecordedLog.operations) = 2
    /\ Resolve(RecordedLog.operations[2].to) \notin DOMAIN pre.fs
    /\ Len(OpsOf("restore")) = 1
    /\ result.restored = 1

(************************ backup cleanup properties ************************)
\* the backup folders of the recorded roots
RecordedBackupRoots ==
    {Append(CanonDir(RecordedRawRoots[k]), "backup") : k \in 1..Len(RecordedRawRoots)}

\* the files the journal lists as backups, if its backup flag is set
TrackedBackups ==
    IF RecordedLog.backup_originals
    THEN {Resolve(RecordedLog.backup_paths[i]) : i \in 1..Len(RecordedLog.backup_paths)}
    ELSE {}

RecordedTos ==
    {Resolve(RecordedLog.operations[i].to) : i \in 1..Len(RecordedLog.operations)}

\* nothing is left in or under directory d
HoldsNothing(d) ==
    /\ \A q \in DOMAIN fs : ~IsPrefix(d, q.dir)
    /\ \A x \in dirs : x = d \/ ~IsPrefix(d, x)

\* C11: undo deletes the recorded backup files that still exist and no other file: files
\* nobody recorded survive, a journal without the backup flag or without backup paths
\* deletes nothing, and a directory is removed only if it is empty and is a backup folder
\* or lies under one; above a deleted backup every emptied directory is removed.
C11_UndoDeletesOnlyRecordedBackups ==
    UndoCalled =>
        /\ \A k \in 1..Len(oplog) :
              oplog[k].op = "unbackup" =>
                 Resolve(oplog[k].from) \in TrackedBackups \cap DOMAIN pre.fs
        /\ \A q \in DOMAIN pre.fs \ (TrackedBackups \cup RecordedTos) :
              q \in DOMAIN fs /\ fs[q] = pre.fs[q]
        /\ dirs \subseteq pre.dirs
        /\ \A d \in pre.dirs \ dirs :
              /\ \E b \in RecordedBackupRoots : IsPrefix(b, d)
              /\ \A q \in DOMAIN fs : q.dir # d
              /\ \A x \in dirs : Len(x) = 0 \/ Parent(x) # d
              /\ TrackedBackups \cap DOMAIN pre.fs # {}
        /\ (AfterUndo /\ result.ok) =>
              /\ \A q \in TrackedBackups : q \notin DOMAIN fs
              /\ \A q \in TrackedBackups \cap DOMAIN pre.fs :
                    \A d \in pre.dirs :
                       ((\E b \in RecordedBackupRoots : IsPrefix(b, d))
                           /\ IsPrefix(d, q.dir) /\ HoldsNothing(d)) => d \notin dirs

\* C11 witness: the journal lists jpg/backup/sub/a alone; undo has deleted it and the
\* emptied jpg/backup/sub, and has kept jpg/backup with the unrecorded jpg/backup/u
C11_Witness ==
    /\ UndoCalled
    /\ AfterUndo
    /\ result.ok
    /\ RecordedLog.backup_originals
    /\ RecordedLog.backup_paths = <<P(BAKSUB, "a")>>
    /\ P(BAKSUB, "a") \in DOMAIN pre.fs
    /\ P(BAKSUB, "a") \notin DOMAIN fs
    /\ BAKSUB \notin dirs
    /\ BAK \in dirs
    /\ P(BAK, "u") \in DOMAIN fs
    /\ OpsOf("unbackup") = <<Op("unbackup", P(BAKSUB, "a"), P(BAKSUB, "a"))>>

(************************ single-use undo **********************************)
\* the second of two undo_last calls in a row has returned
SecondUndoReturned == phase = "undone_again" /\ pc = "idle"

\* C12: a successful undo_last deletes the journal, so a second undo_last with no apply
\* in between fails with the no-history error and changes no file.
C12_UndoIsSingleUse ==
    /\ (AfterUndo /\ result.ok) => journal = <<>>
    /\ (phase = "undone_again" /\ aresult.call = "undo" /\ aresult.ok) =>
          /\ pc = "idle"
          /\ result = UndoErr("no_history", 0)
          /\ oplog = <<>>
          /\ fs = pre.fs
          /\ dirs = pre.dirs
          /\ journal = <<>>

\* C12 witness: the first undo reversed two renames and succeeded; the second was refused
C12_Witness ==
    /\ SecondUndoReturned
    /\ aresult = UndoOk(2)
    /\ result = UndoErr("no_history", 0)
    /\ journal = <<>>

(************************ the journal is one slot ***************************)
\* the renames of this apply as the journal records them
PlanOps == [i \in 1..Len(Changed) |->
               [from |-> Changed[i].original_path, to |-> Changed[i].target_path]]

\* the restore rename o reverses one of the renames of this apply
ReversesPlanOp(o) ==
    \E i \in 1..Len(PlanOps) :
        /\ Resolve(PlanOps[i].to) = Resolve(o.from)
        /\ Resolve(PlanOps[i].from) = Resolve(o.to)

\* C13: a successful apply that renames at least one file replaces the journal with its
\* own record, whatever an earlier apply left there, so undo_last reverses the renames of
\* the last apply only and consumes the journal: the earlier renames are never undone.
C13_JournalIsSingleSlot ==
    /\ (AfterApply /\ result.ok /\ result.applied >= 1) =>
          /\ Len(journal) = 1
          /\ journal[1].operations = PlanOps
          /\ journal[1].backup_originals = opts.backup_originals
          /\ journal[1].jpg_roots = plan_jpg_roots(plan)
    /\ (phase = "undone" /\ aresult.call = "apply" /\ aresult.ok /\ aresult.applied >= 1) =>
          /\ pre.journal # <<>>
          /\ pre.journal[1].operations = PlanOps
          /\ \A k \in 1..Len(oplog) : oplog[k].op = "restore" => ReversesPlanOp(oplog[k])
          /\ P(JPG, "z") \notin DOMAIN fs
          /\ (AfterUndo /\ result.ok) => journal = <<>>

\* C13 witness: the journal of an earlier apply (jpg/z -> jpg/b) was there when this
\* apply renamed jpg/a to jpg/c; the journal now holds that one rename alone
C13_Witness ==
    /\ AfterApply
    /\ result.ok
    /\ result.applied = 1
    /\ pre.journal = <<OldLog>>
    /\ Len(journal) = 1
    /\ journal[1].operations = <<[from |-> P(JPG, "a"), to |-> P(JPG, "c")]>>

(************************ backup properties ********************************)
CanonPlanRoots == canonicalize_jpg_roots(plan_jpg_roots(plan))[2]

\* <root>/backup/<path of the original relative to its governing root>
MirroredBackup(original) ==
    LET oc == Resolve(original)
        root == pick_most_specific_root(oc.dir, CanonPlanRoots)[2]
    IN [dir |-> BackupRoot(root) \o SubSeq(oc.dir, Len(root) + 1, Len(oc.dir)),
        name |-> oc.name, n |-> 0]

\* until the first staging rename every file that was there is untouched, and each backup
\* holds what its original holds
BackupsAreCopies ==
    (phase = "applied" /\ OpsOf("stage") = <<>>) =>
        /\ \A q \in DOMAIN pre.fs : q \in DOMAIN fs /\ fs[q] = pre.fs[q]
        /\ \A k \in 1..Len(oplog) :
              oplog[k].op = "backup" =>
                 /\ Exists(oplog[k].to)
                 /\ fs[Resolve(oplog[k].to)] = pre.fs[Resolve(oplog[k].from)]

BackupsMirrorPaths ==
    phase = "applied" =>
        \A k \in 1..Len(oplog) :
            oplog[k].op = "backup" =>
               Resolve(oplog[k].to) = Resolve(MirroredBackup(oplog[k].from))

\* no backup copy after a staging rename, and staging starts with every changed original
\* backed up
BackupsPrecedeStaging ==
    phase = "applied" =>
        /\ \A i, j \in 1..Len(oplog) :
              (i < j /\ oplog[i].op = "stage") => oplog[j].op # "backup"
        /\ OpsOf("stage") # <<>> =>
              \A i \in 1..Len(Changed) :
                 \E k \in 1..Len(oplog) :
                    oplog[k].op = "backup" /\ oplog[k].from = Changed[i].original_path

\* the files that are there now, were not before the apply, and are not its targets
CreatedBesideTargets ==
    {q \in DOMAIN fs :
        /\ q \notin DOMAIN pre.fs
        /\ \A i \in 1..Len(Changed) : q # Resolve(Changed[i].target_path)}

OneCandidateOneBackup ==
    (AfterApply /\ result.ok /\ Len(Changed) = 1) => Cardinality(CreatedBesideTargets) = 1

\* the directories from the parent of backup file q up to the backup folder it is in
BackupChain(q) ==
    {d \in pre.dirs :
        /\ IsPrefix(d, q.dir)
        /\ \E k \in 1..Len(pre.journal[1].jpg_roots) :
              IsPrefix(CanonDir(BackupRoot(pre.journal[1].jpg_roots[k])), d)}

\* undo_last after the apply of one changed candidate, with no filesystem call failing,
\* succeeds, deletes the recorded backup and every directory of its chain left empty
UndoRemovesTheBackup ==
    (AfterUndo /\ phase = "undone" /\ aresult.call = "apply" /\ aresult.ok
        /\ aresult.applied = 1 /\ faults = 0) =>
        /\ result.ok
        /\ \A i \in 1..Len(pre.journal[1].backup_paths) :
              LET q == Resolve(pre.journal[1].backup_paths[i])
              IN /\ q \notin DOMAIN fs
                 /\ \A d \in BackupChain(q) : HoldsNothing(d) => d \notin dirs

\* C14 (as stated): with backups enabled apply copies, never moves, each changed original
\* to <root>/backup/<its path relative to its governing root> before any staging rename;
\* one changed candidate gives exactly one backup file, and the undo_last that follows
\* removes that backup file and its now-empty backup directory.
C14_BackupCopiedMirroredUndone ==
    /\ BackupsAreCopies
    /\ BackupsMirrorPaths
    /\ BackupsPrecedeStaging
    /\ OneCandidateOneBackup
    /\ UndoRemovesTheBackup

\* the backup folder of some root of the plan canonicalizes outside that root
BackupEscapes ==
    \E k \in 1..Len(CanonPlanRoots) :
        ~IsPrefix(CanonPlanRoots[k], CanonDir(BackupRoot(CanonPlanRoots[k])))

\* C15: if a root's backup folder canonicalizes outside that root, apply with backups
\* fails in the backup step: no file is copied, outside the root or anywhere, no original
\* is renamed and no journal is written.
C15_EscapingBackupFolderRejected ==
    (phase = "applied" /\ Changed # <<>> /\ BackupEscapes) =>
        /\ pc \in {"idle", "backup_roots"}
        /\ pc = "idle" =>
              /\ ~result.ok
              /\ validate_apply_candidates(plan, Changed) = "ok" =>
                    result.kind \in {"backup_outside", "backup"}
        /\ oplog = <<>>
        /\ fs = pre.fs
        /\ journal = pre.journal

\* C15 witness: jpg/backup is a symlink to out; the apply of jpg/a -> jpg/c with backups
\* was refused for its backup folder, with jpg/a in place and nothing new under out
C15_Witness ==
    /\ phase = "applied"
    /\ BAK \in DOMAIN links
    /\ links[BAK] = OUT
    /\ Len(Changed) = 1
    /\ Changed[1].original_path = P(JPG, "a")
    /\ Changed[1].target_path = P(JPG, "c")
    /\ result = ApplyErr("backup_outside", "none", "none")
    /\ fs = pre.fs

(************************ plan counters ************************************)
UnchangedOf(cs) == {i \in 1..Len(cs) : ~cs[i].changed}

\* C16: every candidate of a plan the planner builds has changed = (target path differs
\* from original path); the plan's unchanged counter is the number of candidates with
\* changed = false and its planned counter the number of candidates.
C16_ChangedFlagAndCounters ==
    /\ \A i \in 1..Len(loc.candidates) :
          loc.candidates[i].changed =
             (loc.candidates[i].target_path # loc.candidates[i].original_path)
    /\ PlanProduced =>
          /\ \A i \in 1..Len(plan.candidates) :
                plan.candidates[i].changed =
                   (plan.candidates[i].target_path # plan.candidates[i].original_path)
          /\ Len(plan.candidates) = Len(loc.jpg_files)
          /\ plan.stats.planned = Len(plan.candidates)
          /\ plan.stats.unchanged = Cardinality(UnchangedOf(plan.candidates))

\* C16 witness: a.jpg renders its own name and x.jpg is renamed: two planned, one unchanged
C16_Witness ==
    /\ PlanProduced
    /\ Len(plan.candidates) = 2
    /\ plan.candidates[1].original_path = PJoin(D1, <<"a">> \o EXT_JPG)
    /\ plan.candidates[1].target_path = PJoin(D1, <<"a">> \o EXT_JPG)
    /\ ~plan.candidates[1].changed
    /\ plan.candidates[2].changed
    /\ plan.stats = [planned |-> 2, unchanged |-> 1]

(************************ metadata resolution ******************************)
Resolved == result.call = "resolve_metadata"

\* a source the cascade can use: its reader succeeds, and a companion needs a
\* companion root
Usable(s) == fs[s].state = "ok" /\ (s = "jpg" \/ opts.raw_root)

Has(s, f) == Usable(s) /\ fs[s].meta[f] # None

\* the value of the highest-priority usable source that has field f
Best(f) ==
    IF Has("xmp", f) THEN fs.xmp.meta[f]
    ELSE IF Has("raw", f) THEN fs.raw.meta[f]
    ELSE IF Has("jpg", f) THEN fs.jpg.meta[f]
    ELSE None

NoStepYieldedDate == Best("date") = None

\* C17 as stated: the source is FallbackFileModified exactly when no cascade step
\* yielded a date, the date is then the file's last-modified time, and otherwise the
\* date of the highest-priority step that has one.
C17_FallbackIffNoDate ==
    Resolved =>
       /\ (result.metadata.source = "FallbackFileModified") <=> NoStepYieldedDate
       /\ NoStepYieldedDate => result.metadata.date = "mtime"
       /\ ~NoStepYieldedDate => result.metadata.date = Best("date")

\* C17 amended: as above, but the substituted date is the last-modified time only when
\* it can be read, and the time of the resolution otherwise.
C17_FallbackIffNoDateMtimeOrNow ==
    Resolved =>
       /\ (result.metadata.source = "FallbackFileModified") <=> NoStepYieldedDate
       /\ NoStepYieldedDate =>
             result.metadata.date = (IF fs.modified THEN "mtime" ELSE "now")
       /\ ~NoStepYieldedDate =>
             /\ result.metadata.date = Best("date")
             /\ result.metadata.source = loc.source
             /\ loc.source \in {"Xmp", "XmpAndRawExif", "RawExif", "JpgExif"}

\* C17 witness: sidecar and JPEG parse but neither has a date, the RAW file cannot be
\* read: the branch chose Xmp, the result says FallbackFileModified with the mtime
C17_Witness ==
    /\ Resolved
    /\ opts.raw_root
    /\ fs.xmp = [state |-> "ok", meta |-> MetaOf("xmp", {"camera_make"})]
    /\ fs.raw.state = "unreadable"
    /\ fs.jpg = [state |-> "ok", meta |-> MetaOf("jpg", Fields \ {"date"})]
    /\ fs.modified
    /\ loc.source = "Xmp"
    /\ result.metadata.source = "FallbackFileModified"
    /\ result.metadata.date = "mtime"
    /\ result.metadata.lens_model = "jpg"

\* C18: each of the six fields resolves to the value of the highest-priority usable
\* source (sidecar, then RAW EXIF, then JPEG EXIF) that has it, and while the cascade
\* runs a field that is present already holds that value, so no later source
\* overrides it.
C18_MissingOnlyCascade ==
    /\ pc \notin {"meta_start"} =>
          \A f \in Fields : loc.merged[f] # None => loc.merged[f] = Best(f)
    /\ Resolved =>
          /\ \A f \in Fields \ {"date"} : result.metadata[f] = Best(f)
          /\ Best("date") # None => result.metadata.date = Best("date")
          /\ Best("date") = None => result.metadata.date = loc.fallback_date

\* C18 witness: the sidecar has only the camera make, the RAW file everything but the
\* lens model, the JPEG everything: one field from each source
C18_Witness ==
    /\ Resolved
    /\ opts.raw_root
    /\ fs.xmp = [state |-> "ok", meta |-> MetaOf("xmp", {"camera_make"})]
    /\ fs.raw = [state |-> "ok", meta |-> MetaOf("raw", Fields \ {"lens_model"})]
    /\ fs.jpg = [state |-> "ok", meta |-> MetaOf("jpg", Fields)]
    /\ result.metadata.camera_make = "xmp"
    /\ result.metadata.date = "raw"
    /\ result.metadata.lens_model = "jpg"
    /\ result.metadata.source = "XmpAndRawExif"

\* C19: whatever the three reads do, resolve_metadata runs to its return, returns a
\* record with a date and a source, and plan generation is not aborted by it.
C19_ResolutionNeverFails ==
    /\ phase # "aborted"
    /\ phase = "preparing" => ENABLED NextMeta
    /\ Resolved =>
          /\ result.ok
          /\ result.metadata.date # None
          /\ result.metadata.source \in
                {"JpgExif", "Xmp", "RawExif", "XmpAndRawExif", "FallbackFileModified"}
          /\ \A f \in Fields \ {"date"} :
                result.metadata[f] = None \/ \E s \in {"xmp", "raw", "jpg"} : Has(s, f)

\* C19 witness: sidecar, RAW file and JPEG all fail to read, and so does the mtime:
\* the candidate is prepared with no field but a date
C19_Witness ==
    /\ phase = "prepared"
    /\ opts.raw_root
    /\ fs.xmp.state = "unreadable"
    /\ fs.raw.state = "unreadable"
    /\ fs.jpg.state = "unreadable"
    /\ ~fs.modified
    /\ result.ok
    /\ result.metadata.source = "FallbackFileModified"
    /\ result.metadata.date = "now"
    /\ \A f \in Fields \ {"date"} : result.metadata[f] = None

(************************ template parsing *********************************)
Parsed == result.call = "parse_template"

IsBrace(c) == c \in {"{", "}"}

\* open braces minus close braces before position p
Depth(t, p) ==
    Cardinality({i \in 1..(p - 1) : t[i] = "{"})
       - Cardinality({i \in 1..(p - 1) : t[i] = "}"})

\* a brace defect at p: a close brace outside braces, an open brace inside braces, a
\* close brace right after the open brace, or the end of the template inside braces
BraceDefect(t, p) ==
    IF p > Len(t) THEN Depth(t, p) > 0
    ELSE \/ t[p] = "}" /\ Depth(t, p) <= 0
         \/ t[p] = "{" /\ Depth(t, p) >= 1
         \/ t[p] = "}" /\ p > 1 /\ t[p - 1] = "{"

Unbalanced(t) == \E p \in 1..(Len(t) + 1) : BraceDefect(t, p)

FirstDefect(t) == CHOOSE p \in 1..(Len(t) + 1) :
                     /\ BraceDefect(t, p)
                     /\ \A q \in 1..(p - 1) : ~BraceDefect(t, q)

\* the text between an open brace at i and the next brace, a close brace at j
GroupAt(t, i, j) ==
    /\ i < j - 1
    /\ t[i] = "{"
    /\ t[j] = "}"
    /\ \A k \in (i + 1)..(j - 1) : ~IsBrace(t[k])

KnownNames == {e[1] : e \in TokenTable}

UnknownGroupAt(t, j) ==
    \E i \in 1..(j - 1) : GroupAt(t, i, j) /\ SubSeq(t, i + 1, j - 1) \notin KnownNames

HasUnknownToken(t) == \E j \in 1..Len(t) : UnknownGroupAt(t, j)

\* an unknown token is closed before the first brace defect
UnknownBeforeDefect(t) ==
    \E j \in 1..Len(t) : UnknownGroupAt(t, j) /\ j < FirstDefect(t)

FirstUnknownToken(t) ==
    LET j == CHOOSE j \in 1..Len(t) :
                /\ UnknownGroupAt(t, j)
                /\ \A k \in 1..(j - 1) : ~UnknownGroupAt(t, k)
        i == CHOOSE i \in 1..(j - 1) : GroupAt(t, i, j)
    IN  SubSeq(t, i + 1, j - 1)

NoBraces(t) == \A i \in 1..Len(t) : ~IsBrace(t[i])

Rejected(kind) == ~result.ok /\ result.kind = kind

\* C20 as stated: an unbalanced template is rejected with UnbalancedBraces, a template
\* with an unrecognized token with UnknownToken, the empty template with Empty, and a
\* non-empty template without braces is accepted.
C20_TemplateErrorKinds ==
    (Parsed /\ pc = "parse_done") =>
       /\ loc.input = <<>> => Rejected("Empty")
       /\ Unbalanced(loc.input) => Rejected("UnbalancedBraces")
       /\ (~Unbalanced(loc.input) /\ HasUnknownToken(loc.input)) =>
             Rejected("UnknownToken")
       /\ (loc.input # <<>> /\ NoBraces(loc.input)) => result.ok

\* C20 amended: the first defect met from the left decides the kind; an unbalanced
\* template is rejected with UnbalancedBraces unless an unrecognized token is closed
\* before the brace defect, and then with UnknownToken.
C20_FirstDefectDecidesKind ==
    (Parsed /\ pc = "parse_done") =>
       /\ loc.input = <<>> => Rejected("Empty")
       /\ Unbalanced(loc.input) =>
             IF UnknownBeforeDefect(loc.input)
             THEN /\ Rejected("UnknownToken")
                  /\ result.token = FirstUnknownToken(loc.input)
             ELSE Rejected("UnbalancedBraces")
       /\ (~Unbalanced(loc.input) /\ HasUnknownToken(loc.input)) =>
             /\ Rejected("UnknownToken")
             /\ result.token = FirstUnknownToken(loc.input)
       /\ (loc.input # <<>> /\ NoBraces(loc.input)) =>
             /\ result.ok
             /\ result.parts = <<Literal(loc.input)>>
       /\ (loc.input # <<>> /\ ~Unbalanced(loc.input) /\ ~HasUnknownToken(loc.input)) =>
             /\ result.ok
             /\ result.parts # <<>>
       /\ ~Rejected("Empty") \/ loc.input = <<>>

\* C20 witness: "{a}{" has an unknown token and then an unclosed brace, and is
\* rejected for the token
C20_Witness ==
    /\ Parsed
    /\ pc = "parse_done"
    /\ loc.input = <<"{", "a", "}", "{">>
    /\ Unbalanced(loc.input)
    /\ Rejected("UnknownToken")
    /\ result.token = <<"a">>

(************************ plan generation: template errors *****************)
GenReturned == pc = "gen_done" /\ result.call = "generate_plan"

TemplateErrorKinds == {"Empty", "UnbalancedBraces", "UnknownToken"}

\* C21 as stated: when plan generation returns a template parse error, no filesystem
\* access (existence check of the roots, directory scan, metadata read) has happened.
C21_TemplateErrorBeforeFilesystem ==
    (GenReturned /\ ~result.ok /\ result.kind \in TemplateErrorKinds) => oplog = <<>>

(************************ filename rendering *******************************)
Rendered == pc = "rendered" /\ result.call = "prepare_candidate"

\* IMG.JPG, maker FUJIFILM, template {camera_maker}_{orig_name}, exclusion FUJIFILM,
\* the default length limit
RenderScenario ==
    /\ loc.metadata.camera_make = SomeStr(S_FUJIFILM)
    /\ loc.metadata.original_name = S_IMG
    /\ loc.extension = EXT_UPPER_JPG
    /\ loc.parts = PartsMakerName
    /\ opts.exclusions = <<S_FUJIFILM>>
    /\ opts.max_filename_len = DefaultMaxFilenameLen

\* C22 as stated: in the scenario the rendered base is "_IMG".
C22_ScenarioRendersUnderscoreImg ==
    (Rendered /\ RenderScenario) => result.rendered_base = <<"_", "I", "M", "G">>

\* C22 amended: in the scenario the template renders "FUJIFILM_IMG", the exclusion
\* leaves "_IMG", the cleanup trims the leading underscore, and the rendered base is
\* "IMG".
C22_ScenarioRendersImg ==
    (Rendered /\ RenderScenario) =>
       /\ oplog[1] = <<"F", "U", "J", "I", "F", "I", "L", "M", "_", "I", "M", "G">>
       /\ oplog[2] = <<"_", "I", "M", "G">>
       /\ oplog[3] = <<"_", "I", "M", "G">>
       /\ oplog[4] = S_IMG
       /\ result.rendered_base = S_IMG

\* C22 witness: the scenario has gone through the whole pipeline
C22_Witness ==
    /\ Rendered
    /\ RenderScenario
    /\ Len(oplog) = 6
    /\ oplog[2] = <<"_", "I", "M", "G">>
    /\ result.rendered_base = S_IMG

(************************ explicit file list *******************************)
ExplicitReturned == pc = "explicit_done" /\ result.call = "generate_plan_for_jpg_files"

\* every selected path is an existing JPG file
AllSelectable ==
    \A i \in 1..Len(loc.jpg_files) :
       fs[loc.jpg_files[i]] = "file" /\ is_jpg(LastName(loc.jpg_files[i]))

\* the canonical parent folders of the selected files
CanonicalParents ==
    {CanonicalizeDir(ParentOf(loc.jpg_files[i])) : i \in 1..Len(loc.jpg_files)}

CommonPrefix(p, S) == \A d \in S : IsPrefix(p, d)

\* C23: for a list of existing JPG files, the nominal root is the longest path that is
\* a component prefix of every canonical parent, the recorded roots are parents of
\* selected files, one for each distinct canonical parent; when the parents share no
\* component, plan generation fails and no root is chosen.
C23_NominalRootIsCommonPrefix ==
    (ExplicitReturned /\ loc.jpg_files # <<>> /\ AllSelectable) =>
       IF \E d \in CanonicalParents : CommonPrefix(SubSeq(d, 1, 1), CanonicalParents)
       THEN /\ result.ok
            /\ Len(plan.jpg_root) >= 1
            /\ CommonPrefix(plan.jpg_root, CanonicalParents)
            /\ \A d \in CanonicalParents : \A n \in 1..Len(d) :
                  CommonPrefix(SubSeq(d, 1, n), CanonicalParents)
                     => n <= Len(plan.jpg_root)
            /\ {CanonicalizeDir(r) : r \in SeqToSet(plan.jpg_roots)} = CanonicalParents
            /\ Len(plan.jpg_roots) = Cardinality(CanonicalParents)
            /\ \A r \in SeqToSet(plan.jpg_roots) :
                  \E i \in 1..Len(loc.jpg_files) : r = ParentOf(loc.jpg_files[i])
       ELSE /\ ~result.ok
            /\ result.kind = "no_common_root"
            /\ plan = NoResolved

\* C23 witness: files under C:/p/q and C:/p give the root C:/p and both parents
C23_Witness ==
    /\ ExplicitReturned
    /\ loc.jpg_files = <<Append(DIR_PQ, N_B_JPEG), Append(DIR_P, N_A_JPG)>>
    /\ result.ok
    /\ plan.jpg_root = DIR_P
    /\ plan.jpg_roots = <<DIR_P, DIR_PQ>>

\* files on two drives share no component: plan generation fails
ExplicitNoCommonRoot ==
    /\ ExplicitReturned
    /\ loc.jpg_files = <<Append(DIR_P, N_A_JPG), Append(DIR_R, N_A_JPG)>>
    /\ result = ExplicitErr("no_common_root")

(************************ directory scan ***********************************)
\* collect_jpg_files has returned for a folder
ScanReturned == pc = "template" /\ fs.jpg = "dir"

\* the files of the scanned tree
TreeFiles == {e.path : e \in {x \in fs.entries : ~x.dir}}

\* the path lies below a dot-prefixed subfolder
InHiddenDir(path) == \E i \in 1..(Len(path) - 1) : is_hidden(path[i])

\* the files the scan looks at: everything outside dot-prefixed subfolders in
\* recursive mode, the direct children of the root otherwise
Listed ==
    IF opts.recursive THEN {p \in TreeFiles : ~InHiddenDir(p)}
    ELSE {p \in TreeFiles : Len(p) = 1}

\* C24 as stated: the scan returns exactly the listed files whose extension is jpg or
\* jpeg in any case, every listed file is scanned, and the scanned files are the
\* JPG files plus the skipped other files.
C24_ScanSelectsExactlyJpg ==
    ScanReturned =>
       /\ SeqToSet(plan.jpg_files) = {p \in Listed : is_jpg(LastName(p))}
       /\ plan.stats.scanned_files = Cardinality(Listed)
       /\ plan.stats.scanned_files = plan.stats.jpg_files + plan.stats.skipped_non_jpg

\* C24 with hidden entries set aside: when hidden entries are excluded, every JPG file
\* that is not dot-prefixed and not below a dot-prefixed subfolder is returned.
C24_VisibleJpgSelected ==
    (ScanReturned /\ ~opts.include_hidden) =>
       \A p \in Listed :
          (is_jpg(LastName(p)) /\ ~is_hidden(LastName(p))) => p \in SeqToSet(plan.jpg_files)

\* a recursive scan of a folder holding a.jpg and a dot-prefixed link to a folder
\* returns no file
C24_ScanStopsAtHiddenLink ==
    /\ ScanReturned
    /\ opts.recursive
    /\ ~opts.include_hidden
    /\ Entry(ScanLink, TRUE, FALSE) \in fs.entries
    /\ <<N_A_JPG>> \in TreeFiles
    /\ plan.jpg_files = <<>>

\* the counts of the scan add up
ScanCountsAddUp ==
    ScanReturned =>
       /\ plan.stats.scanned_files = plan.stats.jpg_files + plan.stats.skipped_non_jpg
       /\ plan.stats.jpg_files = Len(plan.jpg_files)

(************************ filename length bound ****************************)
PlanReturned == pc = "planned"

\* the target's base name and extension together fit the limit
FitsLimit(c) == Len(c.target_path.file) <= loc.options.max_filename_len

\* C25 as stated: in a returned plan the base name plus the extension of every
\* candidate's target, suffixed or not, has at most max_filename_len characters.
C25_TargetFitsLimit ==
    PlanReturned => \A i \in 1..Len(plan.candidates) : FitsLimit(plan.candidates[i])

\* a limit below the length of the extension: the base is cut to nothing and the
\* extension alone is longer than the limit
C25_ExtensionExceedsLimit ==
    /\ PlanReturned
    /\ loc.options.max_filename_len = Len(EXT_JPG) - 1
    /\ \E i \in 1..Len(plan.candidates) :
          /\ plan.candidates[i].target_path.file = EXT_JPG
          /\ ~FitsLimit(plan.candidates[i])

\* when the limit leaves room for the extension, every target fits, suffixed ones too
TargetFitsRoomyLimit ==
    (PlanReturned /\ \A i \in 1..Len(loc.prepared) :
                        Len(loc.prepared[i].extension) <= loc.options.max_filename_len)
       => \A i \in 1..Len(plan.candidates) : FitsLimit(plan.candidates[i])

\* a suffixed target in a plan whose limit leaves room for the extension
SuffixedTargetFits ==
    /\ PlanReturned
    /\ \E i \in 1..Len(plan.candidates) :
          LET c == plan.candidates[i]
          IN  /\ Len(extension(c.target_path.file)) < loc.options.max_filename_len
              /\ c.target_path.file # c.rendered_base \o extension(c.target_path.file)
              /\ FitsLimit(c)

(************************ collision resolution order ***********************)
\* the k-th name of the sequence base, base_001, base_002, ... for a candidate
Numbered(c, k) ==
    LET ext == extension(c.original_path.file)
    IN  PJoin(c.original_path.dir,
              (IF k = 0 THEN c.rendered_base ELSE c.rendered_base \o Suffix(k)) \o ext)

\* the targets claimed before the i-th candidate
ClaimedBefore(i) == {plan.candidates[j].target_path : j \in 1..(i - 1)}

\* the name is free for the i-th candidate
Available(path, i) ==
    /\ path \notin ClaimedBefore(i)
    /\ (path = plan.candidates[i].original_path \/ path \notin DOMAIN fs)

\* C26: the candidates of a returned plan are in the order of their original paths, the
\* target of each is the first name of base, base_001, base_002, ... that no earlier
\* candidate claimed and that is its own original path or does not exist, and changed
\* is false exactly when the target is the original path.
C26_FirstAvailableInPathOrder ==
    PlanReturned =>
       /\ \A i, j \in 1..Len(plan.candidates) :
             i < j => PathLess(Components(plan.candidates[i].original_path),
                               Components(plan.candidates[j].original_path))
       /\ \A i \in 1..Len(plan.candidates) :
             LET c == plan.candidates[i]
             IN  /\ \E k \in 0..MaxSuffix :
                       /\ c.target_path = Numbered(c, k)
                       /\ Available(Numbered(c, k), i)
                       /\ \A m \in 0..(k - 1) : ~Available(Numbered(c, m), i)
                 /\ c.changed = (c.target_path # c.original_path)

\* C26 witness: two candidates rendering the same base; the second finds base claimed
\* and base_001 taken by another file, and is given base_002
C26_Witness ==
    /\ PlanReturned
    /\ Len(plan.candidates) = 2
    /\ plan.candidates[1].target_path = Numbered(plan.candidates[1], 0)
    /\ plan.candidates[2].rendered_base = plan.candidates[1].rendered_base
    /\ Numbered(plan.candidates[2], 1) \in DOMAIN fs
    /\ plan.candidates[2].target_path = Numbered(plan.candidates[2], 2)

\* a candidate whose first free name is its own path is kept unchanged
OwnPathKept ==
    /\ PlanReturned
    /\ \E i \in 1..Len(plan.candidates) :
          /\ plan.candidates[i].target_path = plan.candidates[i].original_path
          /\ plan.candidates[i].target_path = Numbered(plan.candidates[i], 1)
          /\ ~plan.candidates[i].changed

(************************ order of the apply steps *************************)
\* an apply call is running or has returned, and no undo was made since
InApply == phase = "applied"

\* the changed candidates of the applied plan, in plan order
ChangedOf == SelectSeq(plan.candidates, LAMBDA c : c.changed)

\* the step an operation belongs to; the operations of a rollback come last
StepRank(kind) ==
    CASE kind = "backup" -> 1
      [] kind = "stage" -> 2
      [] kind = "commit" -> 3
      [] kind = "journal" -> 4
      [] OTHER -> 5

\* something was created, renamed, copied or written since the call began
Mutated == oplog # <<>> \/ fs # pre.fs \/ dirs # pre.dirs \/ journal # pre.journal

\* C27: an apply whose changed candidates do not all pass validation has returned the
\* validation error with nothing changed; the operations come in the order backups, stagings, commits, journal
\* write; staging starts after all backups, committing after all stagings, the journal
\* is written after all commits, and the k-th commit moves the k-th staged temp name
\* to the target of the k-th changed candidate.
C27_ApplyStepsOrdered ==
    InApply =>
       /\ (~Mutated /\ ChangedOf # <<>>
              /\ validate_apply_candidates(plan, ChangedOf) # "ok")
             => /\ pc = "idle"
                /\ result = ApplyErr(validate_apply_candidates(plan, ChangedOf),
                                     "none", "none")
       /\ \A i, j \in 1..Len(oplog) :
             i < j => StepRank(oplog[i].op) <= StepRank(oplog[j].op)
       /\ (OpsOf("stage") # <<>> /\ opts.backup_originals)
             => Len(OpsOf("backup")) = Len(ChangedOf)
       /\ (~opts.backup_originals) => OpsOf("backup") = <<>>
       /\ OpsOf("commit") # <<>> => Len(OpsOf("stage")) = Len(ChangedOf)
       /\ OpsOf("journal") # <<>> => Len(OpsOf("commit")) = Len(ChangedOf)
       /\ \A k \in 1..Len(OpsOf("stage")) :
             OpsOf("stage")[k].from = ChangedOf[k].original_path
       /\ \A k \in 1..Len(OpsOf("commit")) :
             /\ OpsOf("commit")[k].from = OpsOf("stage")[k].to
             /\ OpsOf("commit")[k].to = ChangedOf[k].target_path

\* C27 witness: an apply with backups of two changed candidates has run all five steps
C27_Witness ==
    /\ InApply
    /\ result.call = "apply"
    /\ result.ok
    /\ opts.backup_originals
    /\ Len(ChangedOf) = 2
    /\ Len(oplog) = 7
    /\ oplog[1].op = "backup"
    /\ oplog[3].op = "stage"
    /\ oplog[5].op = "commit"
    /\ oplog[7].op = "journal"

(************************ the journal of an apply **************************)
\* the journal file holds a log written by this apply
JournalWritten == InApply /\ journal # <<>> /\ journal # pre.journal

\* the (from, to) pairs of the changed candidates, in staging order
PairsOfChanged ==
    [k \in 1..Len(ChangedOf) |-> [from |-> ChangedOf[k].original_path,
                                  to |-> ChangedOf[k].target_path]]

\* C28: a journal written by an apply is written after every changed candidate was
\* committed and holds one (original, target) pair per changed candidate in staging
\* order, the backup flag, the roots of the plan and the backup paths this call
\* created; a successful apply of changed candidates has written it and returns
\* applied = number of pairs and unchanged = candidates - applied.
C28_JournalRecordsCommitted ==
    /\ JournalWritten =>
          /\ Len(OpsOf("commit")) = Len(ChangedOf)
          /\ \A k \in 1..Len(ChangedOf) : OpsOf("commit")[k].to = ChangedOf[k].target_path
          /\ journal[1].operations = PairsOfChanged
          /\ journal[1].backup_originals = opts.backup_originals
          /\ journal[1].jpg_root = <<plan.jpg_root>>
          /\ journal[1].jpg_roots = plan_jpg_roots(plan)
          /\ journal[1].backup_paths
                = [k \in 1..Len(OpsOf("backup")) |->
                      CHOOSE d \in {o.to : o \in SeqToSet(OpsOf("backup"))} :
                         \E o \in SeqToSet(OpsOf("backup")) :
                            o.to = d /\ o.from = ChangedOf[k].original_path]
    /\ (InApply /\ result.call = "apply" /\ result.ok /\ pc = "idle") =>
          /\ ChangedOf # <<>> => JournalWritten
          /\ ChangedOf = <<>> => journal = pre.journal
          /\ result.applied = Len(ChangedOf)
          /\ ChangedOf # <<>> => result.applied = Len(journal[1].operations)
          /\ result.unchanged = Len(plan.candidates) - result.applied

\* C28 witness: an apply with backups of a plan with one changed and one unchanged
\* candidate returned applied = 1, unchanged = 1 and wrote the journal
C28_Witness ==
    /\ JournalWritten
    /\ result.call = "apply"
    /\ result.ok
    /\ opts.backup_originals
    /\ result.applied = 1
    /\ result.unchanged = 1
    /\ Len(journal[1].backup_paths) = 1

(************************ backup destinations ******************************)
\* the destinations are reserved and the copy workers run or have run
BackupReserved == InApply /\ opts.backup_originals /\ loc.jobs # <<>>

\* the destinations as the paths the reservation compares
ReservedPathsDistinct ==
    BackupReserved =>
       /\ \A i, j \in 1..Len(loc.jobs) : i # j => loc.jobs[i].dst # loc.jobs[j].dst
       /\ \A i \in 1..Len(loc.jobs) : loc.jobs[i].dst \notin DOMAIN pre.fs

\* C29 as stated: the reserved destinations of one batch are pairwise different files,
\* none of them existed before, and whatever the order of the copies every file that
\* was there before the apply keeps its content until staging starts and every
\* finished copy holds the content of its own original.
C29_CopiesNeverCollide ==
    BackupReserved =>
       /\ \A i, j \in 1..Len(loc.jobs) :
             i # j => Resolve(loc.jobs[i].dst) # Resolve(loc.jobs[j].dst)
       /\ \A i \in 1..Len(loc.jobs) : Resolve(loc.jobs[i].dst) \notin DOMAIN pre.fs
       /\ OpsOf("stage") = <<>> =>
             /\ \A q \in DOMAIN pre.fs : q \in DOMAIN fs /\ fs[q] = pre.fs[q]
             /\ \A i \in 1..Len(loc.jobs) :
                   i \notin loc.pending =>
                      /\ Exists(loc.jobs[i].dst)
                      /\ fs[Resolve(loc.jobs[i].dst)] = pre.fs[Resolve(loc.jobs[i].src)]

\* jpg/backup/sub links back to jpg/backup: the backups of jpg/a and jpg/sub/a are
\* reserved as jpg/backup/a and jpg/backup/sub/a, both copies are written to the same
\* file and the backup of one original is lost
C29_TwoCopiesOneFile ==
    /\ BackupReserved
    /\ Len(loc.jobs) = 2
    /\ loc.pending = {}
    /\ loc.jobs[1].dst # loc.jobs[2].dst
    /\ Resolve(loc.jobs[1].dst) = Resolve(loc.jobs[2].dst)
    /\ Len(OpsOf("backup")) = 2
    /\ \E i \in 1..2 :
          fs[Resolve(loc.jobs[i].dst)] # pre.fs[Resolve(loc.jobs[i].src)]

(************************ parallel preparation *****************************)
\* a fully sequential run: every input prepared in input order
SequentialPrepared ==
    [i \in 1..Len(loc.jpg_files) |-> prepare_candidate(opts, loc.jpg_files[i])]

\* resolve_collision from the n-th name on (n = 0 is the rendered name itself)
RECURSIVE SequentialTarget(_, _, _)
SequentialTarget(prepared, planned_paths, n) ==
    LET base == IF n = 0 THEN prepared.rendered_base
                ELSE truncate_filename_if_needed(prepared.rendered_base \o Suffix(n),
                                                 prepared.extension,
                                                 opts.max_filename_len)
        candidate == PJoin(prepared.original_path.dir, base \o prepared.extension)
    IN  IF is_available(candidate, prepared.original_path, planned_paths) \/ n > MaxSuffix
        THEN candidate
        ELSE SequentialTarget(prepared, planned_paths, n + 1)

\* the sequential loop over the prepared candidates with one set of claimed paths
RECURSIVE SequentialCandidates(_, _, _, _)
SequentialCandidates(prepared, i, planned_paths, candidates) ==
    IF i > Len(prepared) THEN candidates
    ELSE LET target == SequentialTarget(prepared[i], planned_paths, 0)
         IN  SequentialCandidates(prepared, i + 1, planned_paths \cup {target},
                Append(candidates, [original_path |-> prepared[i].original_path,
                                    target_path |-> target,
                                    rendered_base |-> prepared[i].rendered_base,
                                    changed |-> target # prepared[i].original_path]))

\* C30: whatever the order in which the preparation workers finish, the returned plan
\* has the candidates, targets and changed flags of a run that prepares the inputs one
\* after the other in input order, and the prepared candidates were collected in input
\* order.
C30_PlanIndependentOfScheduling ==
    PlanReturned =>
       /\ loc.prepared = SequentialPrepared
       /\ plan.candidates = SequentialCandidates(SequentialPrepared, 1, {}, <<>>)

\* C30 witness: the worker of the second input finished before the worker of the
\* first, the two rendered different names, and the plan was returned
C30_Witness ==
    /\ PlanReturned
    /\ loc.done = <<2, 1>>
    /\ loc.slots[1].rendered_base # loc.slots[2].rendered_base
    /\ Len(plan.candidates) = 2

(************************ the shared ExifTool handle ***********************)
\* the workers inside an extraction call on the handle
InExtraction == {w \in Workers : loc.wpc[w] \in {"json", "build"}}

\* C31: at most one ExifTool handle is ever created, at most one worker is inside an
\* extraction call at any time, and that worker holds the lock for the whole call.
C31_HandleOnceAndExclusive ==
    phase = "exif" =>
       /\ fs.created <= 1
       /\ Cardinality(InExtraction) <= 1
       /\ \A w \in InExtraction : fs.holder = w
       /\ InExtraction # {} => fs.once = "some"

\* C31 witness: one worker is inside its last call on the handle while two others wait
\* for the lock
C31_Witness ==
    /\ phase = "exif"
    /\ Cardinality(InExtraction) = 1
    /\ Cardinality({w \in Workers : loc.wpc[w] = "lock"}) = 2
    /\ \E w \in InExtraction : loc.reads[w] = MaxReads
    /\ fs.created = 1

(************************ rollback outcome in the error ********************)
\* apply returned an error of a step that comes after the first mutation
FailedAfterMutation ==
    /\ InApply
    /\ pc = "idle"
    /\ result.call = "apply"
    /\ ~result.ok
    /\ result.kind \in {"stage", "commit", "persist"}

\* C32 as stated: an error returned for a stage, commit or journal-write failure says
\* that the rollback succeeded when it did and that it failed when it did.
C32_RollbackOutcomeStated ==
    FailedAfterMutation =>
       /\ result.rollback = "ok" => "rolled_back" \in error_contexts(result)
       /\ result.rollback = "failed" => "rollback_failed" \in error_contexts(result)

\* a failed rollback is always stated, and never stated when the rollback succeeded
FailedRollbackStated ==
    FailedAfterMutation =>
       /\ result.rollback \in {"ok", "failed"}
       /\ result.rollback = "failed" <=> "rollback_failed" \in error_contexts(result)

\* a staging failure whose rollback succeeded: the error names the failed rename only
C32_StageErrorSilentOnRollback ==
    /\ FailedAfterMutation
    /\ result.kind = "stage"
    /\ result.rollback = "ok"
    /\ OpsOf("unstage") # <<>>
    /\ error_contexts(result) = {"stage"}

(************************ reserved device names ****************************)
\* the output of sanitize_filename, the fifth stage of prepare_candidate
Sanitized == oplog[5]

\* C33 as stated: the rendered base of a candidate, after length bounding, never has a
\* reserved device name as its stem.
C33_RenderedBaseNeverReserved ==
    Rendered => ~is_windows_reserved(result.rendered_base)

\* the suffix is appended by sanitize_filename: its output has no reserved stem
SanitizedNeverReserved ==
    (pc \in {"truncate", "rendered"} /\ phase = "preparing") =>
       ~is_windows_reserved(Sanitized)

\* "con" was sanitized to "con_file", and the length bounding, dropping the last
\* underscore-separated token, has cut it back to "con"
C33_TruncatedToReservedStem ==
    /\ Rendered
    /\ Sanitized = S_CON \o <<"_", "f", "i", "l", "e">>
    /\ result.rendered_base = S_CON
    /\ Len(result.rendered_base) + Len(result.extension) <= opts.max_filename_len

(************************ termination of collision resolution **************)
\* the candidate being resolved
Resolving == loc.prepared[loc.idx]

InSuffixLoop == phase = "planning" /\ pc = "suffix"

\* C34 as stated: collision resolution terminates with a target for every candidate,
\* whatever the limit, the claimed paths and the directory content: the plan is
\* returned.
C34_ResolutionTerminates == <>(pc = "planned")

\* every turn of the loop tries a path other than the unavailable base path
SuffixTurnTriesNewPath ==
    InSuffixLoop =>
       SuffixCandidate(Resolving, loc.n, loc.options.max_filename_len)
          # BaseCandidate(Resolving)

\* the explored suffixes are enough: no loop is cut short by the bound on n
SuffixBoundNotReached == InSuffixLoop => loc.n <= MaxSuffix

\* the base is at the limit and unavailable: the length bounding drops the suffix
\* of every turn, and the loop tries the same unavailable path forever
C34_LoopRepeatsUnavailableBase ==
    /\ InSuffixLoop
    /\ loc.n = MaxSuffix
    /\ Len(Resolving.rendered_base) + Len(Resolving.extension)
          = loc.options.max_filename_len
    /\ Resolving.rendered_base # <<>>
    /\ ~is_available(BaseCandidate(Resolving), Resolving.original_path,
                     loc.planned_paths)
    /\ \A n \in 1..MaxSuffix :
          SuffixCandidate(Resolving, n, loc.options.max_filename_len)
             = BaseCandidate(Resolving)

(************************ files outside the batch **************************)
\* the files the changed candidates of the plan name as their originals
BatchOriginals == {Resolve(Changed[i].original_path) : i \in 1..Len(Changed)}

\* the files the changed candidates of the plan name as their targets
BatchTargets == {Resolve(Changed[i].target_path) : i \in 1..Len(Changed)}

\* the files that existed when apply was called and are not part of the batch
Bystanders == DOMAIN pre.fs \ BatchOriginals

Kept(q) == q \in DOMAIN fs /\ fs[q] = pre.fs[q]

\* C35 as stated: a file that exists before the call and is not the original of a
\* changed candidate still exists with the same content after the call, whether apply
\* succeeds or rolls back.
C35_BystandersKept ==
    (InApply /\ AfterApply) => \A q \in Bystanders : Kept(q)

\* a file outside the batch that no changed candidate names as its target is kept
BystandersOffTargetKept ==
    (InApply /\ AfterApply) => \A q \in Bystanders \ BatchTargets : Kept(q)

\* apply has succeeded without any fault, and a file outside the batch that sat at a
\* candidate's target path holds the content of that candidate's original
C35_BystanderAtTargetReplaced ==
    /\ InApply
    /\ AfterApply
    /\ result.ok
    /\ faults = 0
    /\ \E i \in 1..Len(Changed) :
          LET q == Resolve(Changed[i].target_path)
          IN  /\ q \in Bystanders
              /\ fs[q] = pre.fs[Resolve(Changed[i].original_path)]
              /\ fs[q] # pre.fs[q]
              /\ pre.fs[q] \notin {fs[x] : x \in DOMAIN fs}

(************************ the journal of a failed apply ********************)
ApplyFailed == InApply /\ AfterApply /\ ~result.ok

\* C36 as stated: an apply call that returns an error leaves the previously persisted
\* journal unchanged, also when the journal write itself fails at the temp-write or at
\* the rename step.
C36_FailedApplyKeepsJournal == ApplyFailed => journal = pre.journal

\* a failure before the journal write, or a journal write that fails with one failing
\* filesystem call, leaves the journal as it was
EarlyFailureKeepsJournal ==
    (ApplyFailed /\ (result.kind # "persist" \/ faults <= 1)) => journal = pre.journal

\* the journal write has failed at the rename step twice: the journal of the earlier
\* apply was removed between the two attempts and no journal is left
C36_OldJournalRemoved ==
    /\ ApplyFailed
    /\ result.kind = "persist"
    /\ result.rollback = "ok"
    /\ pre.journal = <<OldLog>>
    /\ journal = <<>>
    /\ fs = pre.fs

(************************ undo retried after a partial failure *************)
\* the second undo_last has returned
RetryReturned == phase = "undone_again" /\ pc = "idle" /\ result.call = "undo"

\* the first undo_last failed at a to->from rename or while deleting the backups
FailedPartway ==
    /\ aresult.call = "undo"
    /\ ~aresult.ok
    /\ aresult.kind \in {"restore", "cleanup"}

\* the only fault of the whole run is the one that made the first undo_last fail
FaultGone == faults = 1

\* the operations of the journal the retry started from
RecordedOperations == pre.journal[1].operations

\* every recorded original is back at its path, with the content it had before the
\* apply when the apply moved it
Reversed ==
    \A i \in 1..Len(RecordedOperations) :
       LET from == Resolve(RecordedOperations[i].from)
       IN  /\ from \in DOMAIN fs
           /\ from \in DOMAIN InitFiles => fs[from] = InitFiles[from]

\* a failed undo_last leaves the journal where it is
FailedUndoKeepsJournal ==
    (phase \in {"undone", "undone_again"} /\ pc = "idle" /\ result.call = "undo"
        /\ ~result.ok /\ result.kind \in {"restore", "cleanup"}) =>
       journal = pre.journal /\ journal # <<>>

\* C37 as stated: after an undo_last that failed partway, a later undo_last without
\* fault completes the reversal: it succeeds, the originals are back and the journal
\* is deleted.
C37_RetryCompletesUndo ==
    (RetryReturned /\ FailedPartway /\ FaultGone) =>
       /\ result.ok
       /\ journal = <<>>
       /\ Reversed

\* the retry without fault succeeds and deletes the journal
RetrySucceeds ==
    (RetryReturned /\ FailedPartway /\ FaultGone) => result.ok /\ journal = <<>>

\* the first undo_last reversed every operation and failed while deleting a backup; an
\* operation whose `to` is the `from` of an earlier one found the restored original at
\* its `to`, and the retry moved it away again
C37_RetryMovesRestoredOriginal ==
    /\ RetryReturned
    /\ FailedPartway
    /\ FaultGone
    /\ aresult.kind = "cleanup"
    /\ aresult.restored = Len(RecordedOperations)
    /\ pre.fs = [q \in DOMAIN pre.fs |-> IF q \in DOMAIN InitFiles THEN InitFiles[q] ELSE pre.fs[q]]
    /\ \A q \in DOMAIN InitFiles : q \in DOMAIN pre.fs
    /\ result.ok
    /\ result.restored > 0
    /\ ~Reversed

(************************ backups of a failed apply ************************)
\* the backup files the call has created
BackupsCreated == {Resolve(OpsOf("backup")[i].to) : i \in 1..Len(OpsOf("backup"))}

\* C38 as stated: whenever apply with backups enabled returns an error (while copying
\* backups, staging, committing or writing the journal), no backup file created by
\* that call remains afterwards.
C38_FailedApplyLeavesNoBackup ==
    (ApplyFailed /\ opts.backup_originals) => \A q \in BackupsCreated : q \notin DOMAIN fs

\* after a failed journal write whose backup cleanup went through, no backup file
\* created by the call remains
PersistFailureLeavesNoBackup ==
    (ApplyFailed /\ opts.backup_originals /\ result.kind = "persist"
        /\ result.cleanup = "ok") =>
       \A q \in BackupsCreated : q \notin DOMAIN fs

\* a staging rename was the only failure and the rollback went through: the originals
\* are back, the journal is the one from before the call, and a backup file made by
\* the call is still there
C38_StageFailureLeavesBackup ==
    /\ ApplyFailed
    /\ opts.backup_originals
    /\ result.kind = "stage"
    /\ result.rollback = "ok"
    /\ faults = 1
    /\ journal = pre.journal
    /\ \A q \in DOMAIN pre.fs : q \in DOMAIN fs /\ fs[q] = pre.fs[q]
    /\ \E q \in BackupsCreated : q \in DOMAIN fs /\ q \notin DOMAIN pre.fs
====
